---- MODULE Spec2Model ----
(***************************************************************************)
(* Model of the chat-completion proxy: the Stream Demultiplexer            *)
(* (streamMessages, src/src/sdk.ts), the streaming branch of the route     *)
(* handler with its keep-alive timer (openaiRouter.post and                *)
(* streamEventToOpenAIChunk, src/unnamed/part_001) and the request         *)
(* normalizer with the thinking-consistency filter (src/unnamed/part_000). *)
(*                                                                         *)
(* Strings that the code inspects or rewrites are sequences of tokens.     *)
(* Optional numeric fields are sequences of length 0 (absent) or 1.        *)
(***************************************************************************)
EXTENDS Integers, Sequences, FiniteSets, TLC

\* ------------------------------------------------------------------ bounds

\* Events of the environment during one streamed turn: messages the Agent
\* Bridge delivers, firings of the keep-alive timer and the client leaving.
MaxEvents == 3

\* Messages of a request body.
MaxMessages == 3

\* Tokens of a reasoning text given to the codec.
MaxText == 2

\* Messages the bridge delivers in a turn that streams reasoning blocks only.
MaxReasoningEvents == 7
\* messages q delivers in a turn of content blocks
MaxBlockEvents == 5
\* messages q delivers to two requests in flight at once, counted together
MaxPairEvents == 5

VARIABLES
  \* ---- bridge (the query q and its abort controller)
  consumed,            \* raw messages streamMessages has read from q, in order
  aborted,             \* abortController.abort() has been called
  bridgeFault,         \* what q raised: "none", "AbortError" or "Error"
  feed,                \* what q delivers this turn: "mixed" (messages of every
                       \* kind), "reasoning" (well-formed reasoning blocks) or
                       \* "plain" (text deltas and a result)
  \* ---- streamMessages (sdk.ts 604-801)
  hasTools,
  hasSeenToolUse,
  currentToolId,       \* "" stands for undefined
  inThinkingBlock,
  thinkingSignature,   \* <<>> stands for undefined (and for "")
  usage,
  messageStopSent,
  gpc,                 \* where the generator is suspended
  emitted,             \* the events yielded so far, in order
  \* ---- route handler stream callback (part_001 139-198)
  rpc,                 \* where the callback is suspended
  cur,                 \* the event the for-await loop is handling
  isFirstChunk,
  currentToolIndex,
  done,
  accumulatedThinking,
  keepAliveInterval,   \* TRUE while the interval timer is set
  ticks,               \* firings of the timer so far
  chan,                \* outbound channel: "open" or "closed"
  writeFailed,         \* a write on the channel has been rejected
  out,                 \* what has been written on the channel, in order
  \* ---- route handler before the turn (part_001 87-131)
  body,                \* the request body as parsed
  internalRequest,     \* what toInternal returned for it
  npc,                 \* where the handler is with the request
  submitted,           \* the requests processRequest was called with
  status,              \* status of the JSON answer of the handler (0: none yet)
  answer,              \* the body of that answer
  rawBody,             \* what c.req.text() gave: "json" or text that is not JSON
  thrown,              \* the error toInternal or processRequest threw ("none")
  artifacts,           \* the outcomes of processRequest's file writes, in order
  prompt,              \* the prompt processRequest chose (<<>>: none yet)
  response,            \* the locals of processRequest's loop, then its result
  \* ---- the thinking block codec applied to one reasoning text (part_000 35-142)
  reasoning,           \* the text given to encodeThinkingBlock
  sigInput,            \* the signature given to it; <<>> stands for undefined
  envelope,            \* the text it returned, as it is when it comes back
  tamperedAt,          \* index of the token altered on the way (0: none)
  decodeResult,        \* what decodeThinkingBlock returned
  parseResult,         \* what parseThinkingFromText returned
  cpc,                 \* where the codec is with the text
  \* ---- the event loop and a second request (part_001 139-198, sdk.ts 604-620)
  suspended            \* the locals of the request that is in flight but does
                       \* not hold the event loop (<<>>: no second request)

streamVars == <<consumed, aborted, bridgeFault, feed, hasTools, hasSeenToolUse,
                currentToolId, inThinkingBlock, thinkingSignature, usage,
                messageStopSent, gpc, emitted>>
routeVars == <<rpc, cur, isFirstChunk, currentToolIndex, done,
               accumulatedThinking, keepAliveInterval, ticks, chan,
               writeFailed, out>>
codecVars == <<reasoning, sigInput, envelope, tamperedAt, decodeResult,
               parseResult, cpc>>
handlerVars == <<submitted, status, answer, rawBody, thrown, artifacts, prompt,
                 response>>
normVars == <<body, internalRequest, npc, handlerVars, codecVars, suspended>>

\* --------------------------------------------------------------- helpers

Last(s) == s[Len(s)]

\* JS  x || 0  on an optional number.
OrZero(o) == IF o = <<>> THEN 0 ELSE o[1]

\* Number of elements of s satisfying the test.
Count(s, Test(_)) == Len(SelectSeq(s, Test))

IsMessageStop(e) == e.type = "message_stop"


\* ------------------------------------------------- bridge message alphabet

ToolIds == {"t1"}
MCP_PREFIX == <<"mcp__api-tools__">>
BridgeToolNames == {MCP_PREFIX \o <<"search">>}
\* reasoning texts of a thinking_delta: a letter, a backtick, a fence; a turn
\* with messages of every kind carries the first only
ThinkingTexts == {<<"a">>, <<"BT">>, <<"BT", "BT", "BT">>}
MixedTexts == {<<"a">>}

\* usage objects of message_start and result notifications
StartUsage ==
  [input_tokens |-> 1, output_tokens |-> 1,
   cache_creation_input_tokens |-> <<>>, cache_read_input_tokens |-> <<>>]
ResultUsage ==
  [input_tokens |-> 2, output_tokens |-> 2,
   cache_creation_input_tokens |-> <<1>>, cache_read_input_tokens |-> <<1>>]
\* usage objects of message_delta notifications (all but output_tokens optional)
DeltaUsages ==
  { [output_tokens |-> 3, input_tokens |-> <<>>,
     cache_creation_input_tokens |-> <<>>, cache_read_input_tokens |-> <<>>],
    [output_tokens |-> 4, input_tokens |-> <<4>>,
     cache_creation_input_tokens |-> <<2>>, cache_read_input_tokens |-> <<>>] }

StreamEvent(ev) == [type |-> "stream_event", event |-> ev]

ContentBlockStarts ==
  { [type |-> "content_block_start",
     content_block |-> [type |-> "tool_use", id |-> i, name |-> n]] :
       i \in ToolIds, n \in BridgeToolNames }
  \cup { [type |-> "content_block_start", content_block |-> [type |-> t]] :
           t \in {"thinking"} }

ContentBlockDeltas ==
  { [type |-> "content_block_delta", delta |-> d] :
      d \in { [type |-> "text_delta", text |-> <<"x">>],
              [type |-> "input_json_delta", partial_json |-> <<"{}">>],
              [type |-> "signature_delta", signature |-> <<"s">>] }
            \cup { [type |-> "thinking_delta", thinking |-> t] : t \in ThinkingTexts } }

MessageStarts ==
  { [type |-> "message_start", usage |-> o] : o \in {<<StartUsage>>} }

MessageDeltas ==
  { [type |-> "message_delta", usage |-> o] :
      o \in { <<u>> : u \in DeltaUsages } }

SdkStreamEvents ==
  ContentBlockStarts \cup ContentBlockDeltas
  \cup { [type |-> "content_block_stop"], [type |-> "message_stop"] }
  \cup MessageStarts \cup MessageDeltas

\* SDKMessage values q can deliver
BridgeMessages ==
  { StreamEvent(ev) : ev \in SdkStreamEvents }
  \cup { [type |-> "result", usage |-> o] : o \in {<<>>, <<ResultUsage>>} }
  \cup { [type |-> "assistant"] }

\* error.name of what q can raise
BridgeFaults == {"AbortError", "Error"}

\* events of the environment so far
EnvEvents == Len(consumed) + ticks + (IF chan = "closed" THEN 1 ELSE 0)

IsThinkingStart(m) ==
  /\ m.type = "stream_event"
  /\ m.event.type = "content_block_start"
  /\ m.event.content_block.type = "thinking"
IsBlockStop(m) == m.type = "stream_event" /\ m.event.type = "content_block_stop"
IsReasoningDelta(m) ==
  /\ m.type = "stream_event"
  /\ m.event.type = "content_block_delta"
  /\ m.event.delta.type \in {"thinking_delta", "signature_delta"}
\* a reasoning block was started by the messages consumed and not stopped yet
BlockOpen ==
  \E i \in 1..Len(consumed) :
    /\ IsThinkingStart(consumed[i])
    /\ \A j \in (i + 1)..Len(consumed) : ~IsBlockStop(consumed[j])

\* a text delta or a result
IsPlain(m) ==
  \/ m.type = "result"
  \/ /\ m.type = "stream_event"
     /\ m.event.type = "content_block_delta"
     /\ m.event.delta.type = "text_delta"

\* a start or a stop of a content block, a signature or an argument fragment
IsBlockEvent(m) ==
  /\ m.type = "stream_event"
  /\ \/ m.event.type \in {"content_block_start", "content_block_stop"}
     \/ /\ m.event.type = "content_block_delta"
        /\ m.event.delta.type \in {"signature_delta", "input_json_delta"}

IsBlockStart(m) == m.type = "stream_event" /\ m.event.type = "content_block_start"
\* the type of the content block the messages consumed started last and have not
\* stopped ("": there is none)
OpenBlockType ==
  LET open == { i \in 1..Len(consumed) :
                  /\ IsBlockStart(consumed[i])
                  /\ \A j \in (i + 1)..Len(consumed) : ~IsBlockStop(consumed[j]) }
  IN IF open = {} THEN ""
     ELSE consumed[CHOOSE i \in open : \A j \in open : j <= i].event.content_block.type

\* a well-formed next message of a turn of text, tool calls and reasoning: inside
\* a block its fragments or its stop, outside a block a text delta, a start or
\* the result with its usage, which is the last message
IsPairEvent(m) ==
  /\ \A i \in 1..Len(consumed) : consumed[i].type # "result"
  /\ IF m.type = "result" THEN OpenBlockType = "" /\ m.usage # <<>>
     ELSE IF m.type # "stream_event" THEN FALSE
     ELSE IF OpenBlockType = "tool_use"
     THEN \/ IsBlockStop(m)
          \/ m.event.type = "content_block_delta" /\ m.event.delta.type = "input_json_delta"
     ELSE IF OpenBlockType = "thinking"
     THEN \/ IsBlockStop(m)
          \/ IsReasoningDelta(m) /\ m.event.delta.type = "signature_delta"
          \/ /\ IsReasoningDelta(m) /\ m.event.delta.type = "thinking_delta"
             /\ m.event.delta.thinking \in MixedTexts
     ELSE \/ IsBlockStart(m)
          \/ m.event.type = "content_block_delta" /\ m.event.delta.type = "text_delta"

\* q can deliver msg next
Admits(msg) ==
  IF feed = "pair"
  THEN Len(consumed) + Len(suspended.consumed) < MaxPairEvents /\ IsPairEvent(msg)
  ELSE IF feed = "blocks"
  THEN Len(consumed) < MaxBlockEvents /\ IsBlockEvent(msg)
  ELSE IF feed = "reasoning"
  THEN /\ Len(consumed) < MaxReasoningEvents
       /\ IF BlockOpen THEN IsReasoningDelta(msg) \/ IsBlockStop(msg)
          ELSE IsThinkingStart(msg)
  ELSE IF feed = "plain"
  THEN Len(consumed) < MaxEvents /\ IsPlain(msg)
  ELSE /\ EnvEvents < MaxEvents
       /\ (IsReasoningDelta(msg) /\ msg.event.delta.type = "thinking_delta")
            => msg.event.delta.thinking \in MixedTexts

\* ---------------------------------------------------------- streamMessages

\* sdkToApi (sdk.ts 83-89): strip the bridge prefix when the name starts with it
sdkToApi(name) ==
  IF Len(name) >= Len(MCP_PREFIX) /\ SubSeq(name, 1, Len(MCP_PREFIX)) = MCP_PREFIX
  THEN SubSeq(name, Len(MCP_PREFIX) + 1, Len(name))
  ELSE name

InitialUsage ==
  [inputTokens |-> 0, outputTokens |-> 0,
   cacheCreationInputTokens |-> <<>>, cacheReadInputTokens |-> <<>>]

\* the usage object built from a message_start or result usage (712-717, 764-769)
UsageFrom(u) ==
  [inputTokens |-> u.input_tokens,
   outputTokens |-> u.output_tokens,
   cacheCreationInputTokens |-> <<OrZero(u.cache_creation_input_tokens)>>,
   cacheReadInputTokens |-> <<OrZero(u.cache_read_input_tokens)>>]

\* the in-place update made for a message_delta usage (732-741)
UsageAfterDelta(old, u) ==
  [inputTokens |-> IF u.input_tokens # <<>> THEN u.input_tokens[1] ELSE old.inputTokens,
   outputTokens |-> u.output_tokens,
   cacheCreationInputTokens |->
     IF u.cache_creation_input_tokens # <<>>
     THEN u.cache_creation_input_tokens ELSE old.cacheCreationInputTokens,
   cacheReadInputTokens |->
     IF u.cache_read_input_tokens # <<>>
     THEN u.cache_read_input_tokens ELSE old.cacheReadInputTokens]

\* a faulty stopReason: end_turn whether or not a tool was seen
StopReasonFor_EndTurn(seenToolUse) == "end_turn"

\* stopReason of the result and fallback sites (772, 796)
StopReasonFor(seenToolUse) == IF seenToolUse THEN "tool_use" ELSE "end_turn"

MessageStopEvent(reason, u) == [type |-> "message_stop", stopReason |-> reason, usage |-> u]

\* the condition of the early stop at the message_stop stream event (746)
EarlyStopCondition == hasSeenToolUse /\ hasTools /\ ~messageStopSent

\* a faulty guard of the result site: emit at every result
ResultStopCondition_Unguarded == TRUE

\* the condition guarding the emission at the result message (771)
ResultStopCondition == ~messageStopSent

\* the condition guarding the fallback emission after the loop (795)
FallbackStopCondition == ~messageStopSent

\* a faulty catch clause: no fault is taken for a cancellation
IsAbortError_Never(name) == FALSE

\* the catch clause's test for an expected cancellation (785)
IsAbortError(name) == name = "AbortError"


\* what the route callback owns besides rpc and cur
routeRest == <<isFirstChunk, currentToolIndex, done, accumulatedThinking,
               keepAliveInterval, ticks, chan, writeFailed, out, normVars>>

\* yield e to the consumer and suspend at label
Yield(e, label) ==
  /\ emitted' = Append(emitted, e)
  /\ cur' = e
  /\ gpc' = label
  /\ rpc' = "got"

\* end of the loop body: the for-await asks q for its next message
AwaitNext ==
  /\ gpc' = "await_q"
  /\ rpc' = "pull"
  /\ UNCHANGED <<emitted, cur>>

\* lines 793-800: the fallback emission after the loop, then the generator ends
AfterLoop ==
  IF FallbackStopCondition
  THEN Yield(MessageStopEvent(StopReasonFor(hasSeenToolUse), usage), "y_fallback")
  ELSE /\ gpc' = "done"
       /\ rpc' = "loop_exit"
       /\ UNCHANGED <<emitted, cur>>

\* q delivers msg to the for-await loop (633)
Deliver(msg) ==
  /\ gpc = "await_q"
  /\ Admits(msg)
  /\ consumed' = Append(consumed, msg)
  /\ UNCHANGED <<aborted, bridgeFault, feed, hasTools>>
  /\ UNCHANGED routeRest

\* a faulty branch: the start of a tool block is not remembered
OnContentBlockStart_Forgets ==
  \E ev \in ContentBlockStarts :
    /\ Deliver(StreamEvent(ev))
    /\ IF ev.content_block.type = "tool_use"
       THEN /\ currentToolId' = ev.content_block.id
            /\ Yield([type |-> "tool_use_start", id |-> ev.content_block.id,
                      name |-> sdkToApi(ev.content_block.name)], "y_simple")
            /\ UNCHANGED <<hasSeenToolUse, inThinkingBlock, thinkingSignature, usage,
                           messageStopSent>>
       ELSE /\ inThinkingBlock' = TRUE
            /\ Yield([type |-> "thinking_start"], "y_simple")
            /\ UNCHANGED <<hasSeenToolUse, currentToolId, thinkingSignature, usage,
                           messageStopSent>>

\* content_block_start (644-658)
OnContentBlockStart ==
  \E ev \in ContentBlockStarts :
    /\ Deliver(StreamEvent(ev))
    /\ IF ev.content_block.type = "tool_use"
       THEN /\ hasSeenToolUse' = TRUE
            /\ currentToolId' = ev.content_block.id
            /\ Yield([type |-> "tool_use_start", id |-> ev.content_block.id,
                      name |-> sdkToApi(ev.content_block.name)], "y_simple")
            /\ UNCHANGED <<inThinkingBlock, thinkingSignature, usage, messageStopSent>>
       ELSE IF ev.content_block.type = "thinking"
       THEN /\ inThinkingBlock' = TRUE
            /\ Yield([type |-> "thinking_start"], "y_simple")
            /\ UNCHANGED <<hasSeenToolUse, currentToolId, thinkingSignature, usage,
                           messageStopSent>>
       ELSE /\ AwaitNext
            /\ UNCHANGED <<hasSeenToolUse, currentToolId, inThinkingBlock,
                           thinkingSignature, usage, messageStopSent>>

\* content_block_delta (659-686)
OnContentBlockDelta ==
  \E ev \in ContentBlockDeltas :
    /\ Deliver(StreamEvent(ev))
    /\ IF ev.delta.type = "text_delta"
       THEN /\ Yield([type |-> "text_delta", text |-> ev.delta.text], "y_simple")
            /\ UNCHANGED thinkingSignature
       ELSE IF ev.delta.type = "input_json_delta"
       THEN /\ Yield([type |-> "tool_use_delta", arguments |-> ev.delta.partial_json],
                     "y_simple")
            /\ UNCHANGED thinkingSignature
       ELSE IF ev.delta.type = "thinking_delta"
       THEN /\ Yield([type |-> "thinking_delta", thinking |-> ev.delta.thinking],
                     "y_simple")
            /\ UNCHANGED thinkingSignature
       ELSE /\ thinkingSignature' = thinkingSignature \o ev.delta.signature
            /\ AwaitNext
    /\ UNCHANGED <<hasSeenToolUse, currentToolId, inThinkingBlock, usage, messageStopSent>>

\* the thinking_stop event built at line 695
ThinkingStopEvent == [type |-> "thinking_stop", signature |-> thinkingSignature]

\* content_block_stop (687-698), up to its first yield
OnContentBlockStop ==
  /\ Deliver(StreamEvent([type |-> "content_block_stop"]))
  /\ IF currentToolId # ""
     THEN Yield([type |-> "tool_use_stop"], "y_tool_use_stop")
     ELSE IF inThinkingBlock
     THEN Yield(ThinkingStopEvent, "y_thinking_stop")
     ELSE AwaitNext
  /\ UNCHANGED <<hasSeenToolUse, currentToolId, inThinkingBlock, thinkingSignature,
                 usage, messageStopSent>>

\* message_start (699-719)
OnMessageStart ==
  \E ev \in MessageStarts :
    /\ Deliver(StreamEvent(ev))
    /\ usage' = IF ev.usage # <<>> THEN UsageFrom(ev.usage[1]) ELSE usage
    /\ AwaitNext
    /\ UNCHANGED <<hasSeenToolUse, currentToolId, inThinkingBlock, thinkingSignature,
                   messageStopSent>>

\* message_delta (720-743)
OnMessageDelta ==
  \E ev \in MessageDeltas :
    /\ Deliver(StreamEvent(ev))
    /\ usage' = IF ev.usage # <<>> THEN UsageAfterDelta(usage, ev.usage[1]) ELSE usage
    /\ AwaitNext
    /\ UNCHANGED <<hasSeenToolUse, currentToolId, inThinkingBlock, thinkingSignature,
                   messageStopSent>>

\* message_stop stream event (744-757), up to its yield
OnMessageStop ==
  /\ Deliver(StreamEvent([type |-> "message_stop"]))
  /\ IF EarlyStopCondition
     THEN Yield(MessageStopEvent("tool_use", usage), "y_early_stop")
     ELSE AwaitNext
  /\ UNCHANGED <<hasSeenToolUse, currentToolId, inThinkingBlock, thinkingSignature,
                 usage, messageStopSent>>

\* result message (760-782), up to its yield
OnResult ==
  \E o \in {<<>>, <<ResultUsage>>} :
    /\ Deliver([type |-> "result", usage |-> o])
    /\ usage' = IF o # <<>> THEN UsageFrom(o[1]) ELSE usage
    /\ IF ResultStopCondition
       THEN Yield(MessageStopEvent(StopReasonFor(hasSeenToolUse), usage'), "y_result_stop")
       ELSE AwaitNext
    /\ UNCHANGED <<hasSeenToolUse, currentToolId, inThinkingBlock, thinkingSignature,
                   messageStopSent>>

\* a message that is neither a stream_event nor a result (636-638)
OnOtherMessage ==
  /\ Deliver([type |-> "assistant"])
  /\ AwaitNext
  /\ UNCHANGED <<hasSeenToolUse, currentToolId, inThinkingBlock, thinkingSignature,
                 usage, messageStopSent>>

\* q ends: the loop exits normally
OnBridgeEnd ==
  /\ gpc = "await_q"
  /\ AfterLoop
  /\ UNCHANGED <<consumed, aborted, bridgeFault, feed, hasTools, hasSeenToolUse, currentToolId,
                 inThinkingBlock, thinkingSignature, usage, messageStopSent>>
  /\ UNCHANGED routeRest

\* the catch clause (784-791) for a fault named name: swallowed or rethrown
Catch(name) ==
  IF IsAbortError(name)
  THEN AfterLoop
  ELSE /\ gpc' = "threw"
       /\ rpc' = "catch"
       /\ UNCHANGED <<emitted, cur>>

\* q raises while the loop awaits its next message
OnBridgeThrow ==
  \E name \in BridgeFaults :
    /\ gpc = "await_q"
    /\ bridgeFault' = name
    /\ Catch(name)
    /\ UNCHANGED <<consumed, aborted, feed, hasTools, hasSeenToolUse, currentToolId,
                   inThinkingBlock, thinkingSignature, usage, messageStopSent>>
    /\ UNCHANGED routeRest

\* the break at 755 closes q; the cancelled bridge returns or raises AbortError
OnBridgeClosed ==
  \E name \in {"none", "AbortError"} :
    /\ gpc = "closing_q"
    /\ bridgeFault' = name
    /\ IF name = "none" THEN AfterLoop ELSE Catch(name)
    /\ UNCHANGED <<consumed, aborted, feed, hasTools, hasSeenToolUse, currentToolId,
                   inThinkingBlock, thinkingSignature, usage, messageStopSent>>
    /\ UNCHANGED routeRest


\* ---- the consumer's next() resumes the generator after a yield

\* what a resumption leaves alone unless it says otherwise
ResumeFrame ==
  /\ UNCHANGED <<consumed, bridgeFault, feed, hasTools, hasSeenToolUse, usage>>
  /\ UNCHANGED routeRest

\* the first next(): the generator runs to its first await of q
ResumeStart ==
  /\ rpc = "next" /\ gpc = "start"
  /\ AwaitNext
  /\ ResumeFrame
  /\ UNCHANGED <<aborted, currentToolId, inThinkingBlock, thinkingSignature,
                 messageStopSent>>

\* after tool_use_start, thinking_start or a delta: back to the loop head
ResumeSimple ==
  /\ rpc = "next" /\ gpc = "y_simple"
  /\ AwaitNext
  /\ ResumeFrame
  /\ UNCHANGED <<aborted, currentToolId, inThinkingBlock, thinkingSignature,
                 messageStopSent>>

\* after tool_use_stop (692-698): clear the tool, then the thinking test
ResumeToolUseStop ==
  /\ rpc = "next" /\ gpc = "y_tool_use_stop"
  /\ currentToolId' = ""
  /\ IF inThinkingBlock
     THEN Yield(ThinkingStopEvent, "y_thinking_stop")
     ELSE AwaitNext
  /\ ResumeFrame
  /\ UNCHANGED <<aborted, inThinkingBlock, thinkingSignature, messageStopSent>>

\* a faulty resumption: the signature is kept when the reasoning block closes
ResumeThinkingStop_KeepsSignature ==
  /\ rpc = "next" /\ gpc = "y_thinking_stop"
  /\ inThinkingBlock' = FALSE
  /\ AwaitNext
  /\ ResumeFrame
  /\ UNCHANGED <<aborted, currentToolId, thinkingSignature, messageStopSent>>

\* after thinking_stop (696-697): clear the reasoning state
ResumeThinkingStop ==
  /\ rpc = "next" /\ gpc = "y_thinking_stop"
  /\ inThinkingBlock' = FALSE
  /\ thinkingSignature' = <<>>
  /\ AwaitNext
  /\ ResumeFrame
  /\ UNCHANGED <<aborted, currentToolId, messageStopSent>>

\* a faulty early stop: marks and breaks without abortController.abort()
ResumeEarlyStop_NoAbort ==
  /\ rpc = "next" /\ gpc = "y_early_stop"
  /\ messageStopSent' = TRUE
  /\ gpc' = "closing_q"
  /\ rpc' = "pull"
  /\ UNCHANGED <<emitted, cur, aborted>>
  /\ ResumeFrame
  /\ UNCHANGED <<currentToolId, inThinkingBlock, thinkingSignature>>

\* after the early message_stop (750-755): mark, abort, break
ResumeEarlyStop ==
  /\ rpc = "next" /\ gpc = "y_early_stop"
  /\ messageStopSent' = TRUE
  /\ aborted' = TRUE
  /\ gpc' = "closing_q"
  /\ rpc' = "pull"
  /\ UNCHANGED <<emitted, cur>>
  /\ ResumeFrame
  /\ UNCHANGED <<currentToolId, inThinkingBlock, thinkingSignature>>

\* after the message_stop of the result site (774): mark, and the loop goes on
ResumeResultStop ==
  /\ rpc = "next" /\ gpc = "y_result_stop"
  /\ messageStopSent' = TRUE
  /\ AwaitNext
  /\ ResumeFrame
  /\ UNCHANGED <<aborted, currentToolId, inThinkingBlock, thinkingSignature>>

\* after the fallback message_stop (797-800): the generator returns
ResumeFallback ==
  /\ rpc = "next" /\ gpc = "y_fallback"
  /\ gpc' = "done"
  /\ rpc' = "loop_exit"
  /\ UNCHANGED <<emitted, cur>>
  /\ ResumeFrame
  /\ UNCHANGED <<aborted, currentToolId, inThinkingBlock, thinkingSignature,
                 messageStopSent>>

\* ------------------------------------------------- streamEventToOpenAIChunk

Null == [null |-> TRUE]
\* F at the value of v, which is computed once
With(v, F(_)) == CHOOSE r \in { F(x) : x \in {v} } : TRUE
EmptyDelta == [empty |-> TRUE]
\* "BT" stands for the backtick character and "\\" for the backslash; the words
\* the envelope is made of ("thinking", "[Thinking]", "[SIG=", ",CRC=") are
\* tokens of their own
Fence == <<"BT", "BT", "BT">>

\* text.replace(/BT BT BT/g, "\\BT\\BT\\BT")  (part_001 165, 255)
RECURSIVE EscapeFences(_)
EscapeFences(text) ==
  IF text = <<>> THEN <<>>
  ELSE IF Len(text) >= 3 /\ SubSeq(text, 1, 3) = Fence
  THEN <<"\\", "BT", "\\", "BT", "\\", "BT">> \o EscapeFences(SubSeq(text, 4, Len(text)))
  ELSE <<text[1]>> \o EscapeFences(SubSeq(text, 2, Len(text)))

\* the tokens texts are made of, in the order of their codes
Alphabet ==
  << "a", "b", "h", "i", "o", "k", "s", " ", "\n", "BT", "\\", ",", "]",
     "thinking", "[Thinking]", "[SIG=", ",CRC=",
     "0", "1", "2", "3", "4", "5", "6", "7", "8", "9", "c", "d", "e", "f" >>
Code(tok) ==
  IF \E i \in 1..Len(Alphabet) : Alphabet[i] = tok
  THEN CHOOSE i \in 1..Len(Alphabet) : Alphabet[i] = tok
  ELSE 0
HexDigits ==
  << "0", "1", "2", "3", "4", "5", "6", "7", "8", "9", "a", "b", "c", "d", "e", "f" >>

\* the checksum of a text: zlib's crc32 is outside the repository; what is kept of
\* it is a fixed-width value determined by the tokens and their order, which is
\* not injective
RECURSIVE Checksum(_, _)
Checksum(text, h) ==
  IF text = <<>> THEN h
  ELSE Checksum(Tail(text), (h * 31 + Code(Head(text)) + 1) % 65536)

\* calculateCrc32 (part_000 14-17): the checksum as eight hexadecimal digits
calculateCrc32(text) ==
  With(Checksum(text, 0),
       LAMBDA checksum :
         LET Digit(k) == HexDigits[((checksum \div (16 ^ k)) % 16) + 1]
         IN <<"0", "0", "0", "0", Digit(3), Digit(2), Digit(1), Digit(0)>>)

\* ...(isFirst && { role: "assistant" })
RoleOf(isFirst) == IF isFirst THEN <<"assistant">> ELSE <<>>

ContentChunk(delta) == [delta |-> delta, finish_reason |-> "null", usage |-> <<>>]

\* the finish reason of the final chunk (part_001 351)
StreamFinishReason(stopReason) ==
  IF stopReason = "tool_use" THEN "tool_calls"
  ELSE IF stopReason = "max_tokens" THEN "length" ELSE "stop"

\* part_001 222-371 (the fields of baseChunk, fixed per request, are left out)
streamEventToOpenAIChunk(event, isFirst, toolIndex, accumulated) ==
  IF event.type = "text_delta"
  THEN ContentChunk([role |-> RoleOf(isFirst), content |-> event.text])
  ELSE IF event.type = "thinking_delta"
  THEN ContentChunk([role |-> RoleOf(isFirst), content |-> EscapeFences(event.thinking)])
  ELSE IF event.type = "thinking_start"
  THEN ContentChunk([role |-> RoleOf(isFirst),
                     content |-> Fence \o <<"thinking", "\n", "[Thinking]", "\n">>])
  ELSE IF event.type = "thinking_stop"
  THEN LET sigTag == IF event.signature # <<>> /\ accumulated # <<>>
                     THEN <<"\n", "[SIG=">> \o event.signature \o <<",CRC=">>
                          \o calculateCrc32(accumulated) \o <<"]">>
                     ELSE <<>>
       IN ContentChunk([content |-> sigTag \o <<"\n">> \o Fence \o <<"\n", "\n">>])
  ELSE IF event.type = "tool_use_start"
  THEN ContentChunk([role |-> RoleOf(isFirst),
                     tool_calls |-> <<[index |-> toolIndex, id |-> event.id,
                                       type |-> "function",
                                       function |-> [name |-> event.name,
                                                     arguments |-> <<>>]]>>])
  ELSE IF event.type = "tool_use_delta"
  THEN ContentChunk([tool_calls |-> <<[index |-> toolIndex - 1,
                                       function |-> [arguments |-> event.arguments]]>>])
  ELSE IF event.type = "message_stop"
  THEN LET promptTokens == event.usage.inputTokens
                           + OrZero(event.usage.cacheCreationInputTokens)
                           + OrZero(event.usage.cacheReadInputTokens)
       IN [delta |-> EmptyDelta,
           finish_reason |-> StreamFinishReason(event.stopReason),
           usage |-> <<[prompt_tokens |-> promptTokens,
                        completion_tokens |-> event.usage.outputTokens,
                        total_tokens |-> promptTokens + event.usage.outputTokens]>>]
  ELSE Null


\* ------------------------------------- route handler: the stream callback

\* all of streamMessages' state but gpc
streamRest == <<consumed, aborted, bridgeFault, feed, hasTools, hasSeenToolUse,
                currentToolId, inThinkingBlock, thinkingSignature, usage,
                messageStopSent, emitted>>

Comment(text) == [kind |-> "comment", text |-> text]
Data(json) == [kind |-> "data", json |-> json]
\* the literal  data: [DONE]
DoneEntry == [kind |-> "done"]
ErrorChunk(message) == [error |-> [message |-> message, type |-> "stream_error"]]

\* await s.write(entry) inside the for-await body: the entry is on the channel when
\* the call is made and the callback resumes at okLabel; on a closed channel the
\* write is rejected, the loop is left (which returns the generator) and the
\* catch clause runs
WriteInLoop(entry, okLabel) ==
  IF chan = "open"
  THEN /\ out' = Append(out, entry)
       /\ rpc' = okLabel
       /\ UNCHANGED <<writeFailed, gpc>>
  ELSE /\ writeFailed' = TRUE
       /\ rpc' = "catch"
       /\ gpc' = "returned"
       /\ UNCHANGED out

\* await s.write(entry) outside the loop body: a rejection goes to failLabel
WriteElsewhere(entry, okLabel, failLabel) ==
  IF chan = "open"
  THEN /\ out' = Append(out, entry)
       /\ rpc' = okLabel
       /\ UNCHANGED writeFailed
  ELSE /\ writeFailed' = TRUE
       /\ rpc' = failLabel
       /\ UNCHANGED out

\* lines 140-156: the synthetic comment, then the interval timer is set
RouteConnect ==
  /\ rpc = "start"
  /\ WriteElsewhere(Comment("stream connected"), "next", "failed")
  /\ keepAliveInterval' = (chan = "open")
  /\ UNCHANGED <<cur, isFirstChunk, currentToolIndex, done, accumulatedThinking,
                 ticks, chan>>
  /\ UNCHANGED <<streamVars, normVars>>

\* the accumulator update of lines 162-166
AccumulatedAfter(event, accumulated) ==
  IF event.type = "thinking_start" THEN <<>>
  ELSE IF event.type = "thinking_delta"
  THEN accumulated \o EscapeFences(event.thinking)
  ELSE accumulated

\* a faulty loop body: the chunk of a tool_use_delta event is not written
RouteOnEvent_DropsToolDelta ==
  /\ rpc = "got"
  /\ accumulatedThinking' = AccumulatedAfter(cur, accumulatedThinking)
  /\ LET chunk == streamEventToOpenAIChunk(cur, isFirstChunk, currentToolIndex,
                                           accumulatedThinking')
     IN IF chunk # Null /\ cur.type # "tool_use_delta"
        THEN WriteInLoop(Data(chunk), "wrote_chunk")
        ELSE IF cur.type = "message_stop"
        THEN WriteInLoop(DoneEntry, "wrote_done")
        ELSE /\ rpc' = "next"
             /\ UNCHANGED <<out, writeFailed, gpc>>
  /\ UNCHANGED <<cur, isFirstChunk, currentToolIndex, done, keepAliveInterval,
                 ticks, chan>>
  /\ UNCHANGED <<streamRest, normVars>>

\* lines 162-170 (and 176-177 when there is no chunk): one event of the loop
RouteOnEvent ==
  /\ rpc = "got"
  /\ accumulatedThinking' = AccumulatedAfter(cur, accumulatedThinking)
  /\ LET chunk == streamEventToOpenAIChunk(cur, isFirstChunk, currentToolIndex,
                                           accumulatedThinking')
     IN IF chunk # Null
        THEN WriteInLoop(Data(chunk), "wrote_chunk")
        ELSE IF cur.type = "message_stop"
        THEN WriteInLoop(DoneEntry, "wrote_done")
        ELSE /\ rpc' = "next"
             /\ UNCHANGED <<out, writeFailed, gpc>>
  /\ UNCHANGED <<cur, isFirstChunk, currentToolIndex, done, keepAliveInterval,
                 ticks, chan>>
  /\ UNCHANGED <<streamRest, normVars>>

\* lines 171-177: after the chunk's write resolved
RouteAfterChunk ==
  /\ rpc = "wrote_chunk"
  /\ isFirstChunk' = FALSE
  /\ currentToolIndex' =
       IF cur.type = "tool_use_start" THEN currentToolIndex + 1 ELSE currentToolIndex
  /\ IF cur.type = "message_stop"
     THEN WriteInLoop(DoneEntry, "wrote_done")
     ELSE /\ rpc' = "next"
          /\ UNCHANGED <<out, writeFailed, gpc>>
  /\ UNCHANGED <<cur, done, accumulatedThinking, keepAliveInterval, ticks, chan>>
  /\ UNCHANGED <<streamRest, normVars>>

\* lines 178 and 183: after a write of [DONE] resolved, in the loop or after it
RouteAfterDone ==
  /\ rpc \in {"wrote_done", "wrote_final_done"}
  /\ done' = TRUE
  /\ rpc' = IF rpc = "wrote_done" THEN "next" ELSE "finally"
  /\ UNCHANGED <<cur, isFirstChunk, currentToolIndex, accumulatedThinking,
                 keepAliveInterval, ticks, chan, writeFailed, out>>
  /\ UNCHANGED <<streamVars, normVars>>

\* lines 181-182: the generator ended
RouteLoopExit ==
  /\ rpc = "loop_exit"
  /\ IF ~done
     THEN WriteElsewhere(DoneEntry, "wrote_final_done", "catch")
     ELSE /\ rpc' = "finally"
          /\ UNCHANGED <<out, writeFailed>>
  /\ UNCHANGED <<cur, isFirstChunk, currentToolIndex, done, accumulatedThinking,
                 keepAliveInterval, ticks, chan>>
  /\ UNCHANGED <<streamVars, normVars>>

\* lines 185-189: the catch clause writes the error chunk
RouteCatch ==
  /\ rpc = "catch"
  /\ WriteElsewhere(Data(ErrorChunk(bridgeFault)), "wrote_error", "finally")
  /\ UNCHANGED <<cur, isFirstChunk, currentToolIndex, done, accumulatedThinking,
                 keepAliveInterval, ticks, chan>>
  /\ UNCHANGED <<streamVars, normVars>>

\* line 190: [DONE] after the error chunk
RouteAfterError ==
  /\ rpc = "wrote_error"
  /\ WriteElsewhere(DoneEntry, "wrote_error_done", "finally")
  /\ UNCHANGED <<cur, isFirstChunk, currentToolIndex, done, accumulatedThinking,
                 keepAliveInterval, ticks, chan>>
  /\ UNCHANGED <<streamVars, normVars>>

RouteAfterErrorDone ==
  /\ rpc = "wrote_error_done"
  /\ rpc' = "finally"
  /\ UNCHANGED <<cur, isFirstChunk, currentToolIndex, done, accumulatedThinking,
                 keepAliveInterval, ticks, chan, writeFailed, out>>
  /\ UNCHANGED <<streamVars, normVars>>

\* lines 194-197
RouteFinally ==
  /\ rpc = "finally"
  /\ done' = TRUE
  /\ keepAliveInterval' = FALSE
  /\ rpc' = "finished"
  /\ UNCHANGED <<cur, isFirstChunk, currentToolIndex, accumulatedThinking, ticks,
                 chan, writeFailed, out>>
  /\ UNCHANGED <<streamVars, normVars>>

\* The callback is suspended on I/O (the bridge or a write on the channel): only
\* then can the event loop run a timer callback or notice the client leaving.
AwaitingIO ==
  rpc \in {"pull", "wrote_chunk", "wrote_done", "wrote_final_done", "wrote_error",
           "wrote_error_done"}

\* the test of the keep-alive callback (149)
KeepAliveCondition == ~done

\* lines 148-156: one firing of the interval timer
KeepAliveTick ==
  /\ keepAliveInterval
  /\ AwaitingIO
  /\ EnvEvents < MaxEvents
  /\ ticks' = ticks + 1
  /\ IF KeepAliveCondition
     THEN IF chan = "open"
          THEN /\ out' = Append(out, Comment("keep-alive"))
               /\ UNCHANGED <<keepAliveInterval, writeFailed>>
          ELSE /\ keepAliveInterval' = FALSE
               /\ writeFailed' = TRUE
               /\ UNCHANGED out
     ELSE UNCHANGED <<out, keepAliveInterval, writeFailed>>
  /\ UNCHANGED <<rpc, cur, isFirstChunk, currentToolIndex, done, accumulatedThinking,
                 chan>>
  /\ UNCHANGED <<streamVars, normVars>>

\* the client goes away: later writes on the channel are rejected
ClientDisconnect ==
  /\ chan = "open"
  /\ rpc = "start" \/ AwaitingIO
  /\ EnvEvents < MaxEvents
  /\ chan' = "closed"
  /\ UNCHANGED <<rpc, cur, isFirstChunk, currentToolIndex, done, accumulatedThinking,
                 keepAliveInterval, ticks, writeFailed, out>>
  /\ UNCHANGED <<streamVars, normVars>>

\* ------------------------------------------------------------ specification

vars == <<streamVars, routeVars, normVars>>

\* the state of a turn before it starts, but for where the generator and the
\* callback are
TurnFresh ==
  /\ consumed = <<>>
  /\ aborted = FALSE
  /\ bridgeFault = "none"
  /\ hasSeenToolUse = FALSE
  /\ currentToolId = ""
  /\ inThinkingBlock = FALSE
  /\ thinkingSignature = <<>>
  /\ usage = InitialUsage
  /\ messageStopSent = FALSE
  /\ emitted = <<>>
  /\ cur = Null
  /\ isFirstChunk = TRUE
  /\ currentToolIndex = 0
  /\ done = FALSE
  /\ accumulatedThinking = <<>>
  /\ keepAliveInterval = FALSE
  /\ ticks = 0
  /\ chan = "open"
  /\ writeFailed = FALSE
  /\ out = <<>>

\* the state of a turn before it starts
TurnInit ==
  /\ TurnFresh
  /\ gpc = "start"
  /\ rpc = "start"

\* no text is with the codec
CodecIdle ==
  /\ reasoning = <<>>
  /\ sigInput = <<>>
  /\ envelope = <<>>
  /\ tamperedAt = 0
  /\ decodeResult = Null
  /\ parseResult = <<>>
  /\ cpc = "idle"

\* no request is being normalized
NoRequest == [model |-> <<>>, system |-> [kind |-> "undefined"], tools |-> <<>>,
              messages |-> <<>>, max_tokens |-> <<>>, stream |-> <<>>]

Init ==
  /\ TurnInit
  /\ feed = "mixed"
  /\ hasTools \in BOOLEAN
  /\ body = NoRequest
  /\ internalRequest = Null
  /\ submitted = <<>>
  /\ status = 0
  /\ answer = Null
  /\ thrown = "none"
  /\ artifacts = <<>>
  /\ prompt = <<>>
  /\ suspended = <<>>
  /\ response = Null
  /\ rawBody = "json"
  /\ npc = "streaming"
  /\ CodecIdle

Next ==
  \/ OnContentBlockStart
  \/ OnContentBlockDelta
  \/ OnContentBlockStop
  \/ OnMessageStart
  \/ OnMessageDelta
  \/ OnMessageStop
  \/ OnResult
  \/ OnOtherMessage
  \/ OnBridgeEnd
  \/ OnBridgeThrow
  \/ OnBridgeClosed
  \/ ResumeStart
  \/ ResumeSimple
  \/ ResumeToolUseStop
  \/ ResumeThinkingStop
  \/ ResumeEarlyStop
  \/ ResumeResultStop
  \/ ResumeFallback
  \/ RouteConnect
  \/ RouteOnEvent
  \/ RouteAfterChunk
  \/ RouteAfterDone
  \/ RouteLoopExit
  \/ RouteCatch
  \/ RouteAfterError
  \/ RouteAfterErrorDone
  \/ RouteFinally
  \/ KeepAliveTick
  \/ ClientDisconnect

Spec == Init /\ [][Next]_vars

\* ---- a turn that streams reasoning blocks only, each a thinking block start,
\* thinking and signature deltas and a block stop, to a client that stays

InitReasoning ==
  /\ TurnInit
  /\ feed = "reasoning"
  /\ hasTools = FALSE
  /\ body = NoRequest
  /\ internalRequest = Null
  /\ submitted = <<>>
  /\ status = 0
  /\ answer = Null
  /\ thrown = "none"
  /\ artifacts = <<>>
  /\ prompt = <<>>
  /\ suspended = <<>>
  /\ response = Null
  /\ rawBody = "json"
  /\ npc = "streaming"
  /\ CodecIdle

NextReasoning ==
  \/ OnContentBlockStart
  \/ OnContentBlockDelta
  \/ OnContentBlockStop
  \/ OnBridgeEnd
  \/ ResumeStart
  \/ ResumeSimple
  \/ ResumeThinkingStop
  \/ ResumeFallback
  \/ RouteConnect
  \/ RouteOnEvent
  \/ RouteAfterChunk
  \/ RouteAfterDone
  \/ RouteLoopExit
  \/ RouteFinally

SpecReasoning == InitReasoning /\ [][NextReasoning]_vars

\* ---- a turn of content blocks: q delivers starts of tool and reasoning blocks,
\* signature and argument fragments and block stops in any order, to a client
\* that stays

InitBlocks ==
  /\ TurnInit
  /\ feed = "blocks"
  /\ hasTools = TRUE
  /\ body = NoRequest
  /\ internalRequest = Null
  /\ submitted = <<>>
  /\ status = 0
  /\ answer = Null
  /\ thrown = "none"
  /\ artifacts = <<>>
  /\ prompt = <<>>
  /\ suspended = <<>>
  /\ response = Null
  /\ rawBody = "json"
  /\ npc = "streaming"
  /\ CodecIdle

NextBlocks ==
  \/ OnContentBlockStart
  \/ OnContentBlockDelta
  \/ OnContentBlockStop
  \/ OnBridgeEnd
  \/ ResumeStart
  \/ ResumeSimple
  \/ ResumeToolUseStop
  \/ ResumeThinkingStop
  \/ ResumeFallback
  \/ RouteConnect
  \/ RouteOnEvent
  \/ RouteAfterChunk
  \/ RouteAfterDone
  \/ RouteLoopExit
  \/ RouteFinally

SpecBlocks == InitBlocks /\ [][NextBlocks]_vars

\* ---- two requests in flight at once: each has its own call of the stream
\* callback and of streamMessages; the event loop runs one of them at a time and
\* can pass from one to the other wherever the one that runs awaits

\* the locals of the request that holds the event loop: those of its call of
\* streamMessages (sdk.ts 609-614) and of the stream callback (part_001 140-158),
\* with its bridge and its channel
Locals ==
  [consumed |-> consumed, aborted |-> aborted, bridgeFault |-> bridgeFault,
   feed |-> feed, hasTools |-> hasTools, hasSeenToolUse |-> hasSeenToolUse,
   currentToolId |-> currentToolId, inThinkingBlock |-> inThinkingBlock,
   thinkingSignature |-> thinkingSignature, usage |-> usage,
   messageStopSent |-> messageStopSent, gpc |-> gpc, emitted |-> emitted,
   rpc |-> rpc, cur |-> cur, isFirstChunk |-> isFirstChunk,
   currentToolIndex |-> currentToolIndex, done |-> done,
   accumulatedThinking |-> accumulatedThinking,
   keepAliveInterval |-> keepAliveInterval, ticks |-> ticks, chan |-> chan,
   writeFailed |-> writeFailed, out |-> out]

\* the locals of a request whose stream callback has not started yet
FreshLocals(tools) ==
  [consumed |-> <<>>, aborted |-> FALSE, bridgeFault |-> "none",
   feed |-> "pair", hasTools |-> tools, hasSeenToolUse |-> FALSE,
   currentToolId |-> "", inThinkingBlock |-> FALSE,
   thinkingSignature |-> <<>>, usage |-> InitialUsage,
   messageStopSent |-> FALSE, gpc |-> "start", emitted |-> <<>>,
   rpc |-> "start", cur |-> Null, isFirstChunk |-> TRUE,
   currentToolIndex |-> 0, done |-> FALSE,
   accumulatedThinking |-> <<>>,
   keepAliveInterval |-> FALSE, ticks |-> 0, chan |-> "open",
   writeFailed |-> FALSE, out |-> <<>>]

\* a faulty event loop: the tool index is one counter of the module, which the
\* request that resumes finds as the other left it
Switch_SharedToolIndex ==
  /\ suspended' = Locals
  /\ consumed' = suspended.consumed
  /\ aborted' = suspended.aborted
  /\ bridgeFault' = suspended.bridgeFault
  /\ feed' = suspended.feed
  /\ hasTools' = suspended.hasTools
  /\ hasSeenToolUse' = suspended.hasSeenToolUse
  /\ currentToolId' = suspended.currentToolId
  /\ inThinkingBlock' = suspended.inThinkingBlock
  /\ thinkingSignature' = suspended.thinkingSignature
  /\ usage' = suspended.usage
  /\ messageStopSent' = suspended.messageStopSent
  /\ gpc' = suspended.gpc
  /\ emitted' = suspended.emitted
  /\ rpc' = suspended.rpc
  /\ cur' = suspended.cur
  /\ isFirstChunk' = suspended.isFirstChunk
  /\ done' = suspended.done
  /\ accumulatedThinking' = suspended.accumulatedThinking
  /\ keepAliveInterval' = suspended.keepAliveInterval
  /\ ticks' = suspended.ticks
  /\ chan' = suspended.chan
  /\ writeFailed' = suspended.writeFailed
  /\ out' = suspended.out
  /\ UNCHANGED currentToolIndex
  /\ UNCHANGED <<body, internalRequest, npc, handlerVars, codecVars>>

\* the request that runs is suspended at an await and the event loop resumes the
\* other: each finds its own locals as it left them
Switch ==
  /\ suspended' = Locals
  /\ consumed' = suspended.consumed
  /\ aborted' = suspended.aborted
  /\ bridgeFault' = suspended.bridgeFault
  /\ feed' = suspended.feed
  /\ hasTools' = suspended.hasTools
  /\ hasSeenToolUse' = suspended.hasSeenToolUse
  /\ currentToolId' = suspended.currentToolId
  /\ inThinkingBlock' = suspended.inThinkingBlock
  /\ thinkingSignature' = suspended.thinkingSignature
  /\ usage' = suspended.usage
  /\ messageStopSent' = suspended.messageStopSent
  /\ gpc' = suspended.gpc
  /\ emitted' = suspended.emitted
  /\ rpc' = suspended.rpc
  /\ cur' = suspended.cur
  /\ isFirstChunk' = suspended.isFirstChunk
  /\ currentToolIndex' = suspended.currentToolIndex
  /\ done' = suspended.done
  /\ accumulatedThinking' = suspended.accumulatedThinking
  /\ keepAliveInterval' = suspended.keepAliveInterval
  /\ ticks' = suspended.ticks
  /\ chan' = suspended.chan
  /\ writeFailed' = suspended.writeFailed
  /\ out' = suspended.out
  /\ UNCHANGED <<body, internalRequest, npc, handlerVars, codecVars>>

InitPair ==
  /\ TurnInit
  /\ feed = "pair"
  /\ hasTools = TRUE
  /\ body = NoRequest
  /\ internalRequest = Null
  /\ submitted = <<>>
  /\ status = 0
  /\ answer = Null
  /\ thrown = "none"
  /\ artifacts = <<>>
  /\ prompt = <<>>
  /\ response = Null
  /\ rawBody = "json"
  /\ npc = "streaming"
  /\ CodecIdle
  /\ suspended = FreshLocals(TRUE)

NextPair ==
  \/ OnContentBlockStart
  \/ OnContentBlockDelta
  \/ OnContentBlockStop
  \/ OnResult
  \/ OnBridgeEnd
  \/ ResumeStart
  \/ ResumeSimple
  \/ ResumeToolUseStop
  \/ ResumeThinkingStop
  \/ ResumeResultStop
  \/ ResumeFallback
  \/ RouteConnect
  \/ RouteOnEvent
  \/ RouteAfterChunk
  \/ RouteAfterDone
  \/ RouteLoopExit
  \/ RouteFinally
  \/ Switch

SpecPair == InitPair /\ [][NextPair]_vars


\* ----------------------------------------------- thinking block codec

IsSpace(tok) == tok \in {" ", "\n"}

RECURSIVE TrimStart(_)
TrimStart(text) ==
  IF text # <<>> /\ IsSpace(Head(text)) THEN TrimStart(Tail(text)) ELSE text
RECURSIVE TrimEnd(_)
TrimEnd(text) ==
  IF text # <<>> /\ IsSpace(text[Len(text)])
  THEN TrimEnd(SubSeq(text, 1, Len(text) - 1)) ELSE text
\* String.prototype.trim
Trim(text) == TrimEnd(TrimStart(text))

\* thinking.replace(/BT/g, "\\BT")  (part_000 37)
RECURSIVE EscapeBackticks(_)
EscapeBackticks(text) ==
  IF text = <<>> THEN <<>>
  ELSE IF Head(text) = "BT" THEN <<"\\", "BT">> \o EscapeBackticks(Tail(text))
  ELSE <<Head(text)>> \o EscapeBackticks(Tail(text))

\* escapedContent.replace(/\\BT/g, "BT")  (part_000 77)
RECURSIVE UnescapeBackticks(_)
UnescapeBackticks(text) ==
  IF text = <<>> THEN <<>>
  ELSE IF Len(text) >= 2 /\ text[1] = "\\" /\ text[2] = "BT"
  THEN <<"BT">> \o UnescapeBackticks(SubSeq(text, 3, Len(text)))
  ELSE <<Head(text)>> \o UnescapeBackticks(Tail(text))

\* encodeThinkingBlock (part_000 35-46); signature <<>> is undefined or ""
encodeThinkingBlock(thinking, signature) ==
  LET escapedThinking == EscapeBackticks(thinking)
      sigTag == IF signature # <<>>
                THEN <<"\n", "[SIG=">> \o signature \o <<",CRC=">>
                     \o calculateCrc32(escapedThinking) \o <<"]">>
                ELSE <<>>
  IN Fence \o <<"thinking", "\n", "[Thinking]", "\n">> \o escapedThinking \o sigTag
     \o <<"\n">> \o Fence \o <<"\n", "\n">>

\* ---- the regular expression of lines 53 and 110, on tokens

EnvelopeHead == Fence \o <<"thinking", "\n", "[Thinking]", "\n">>
EnvelopeTail == <<"\n">> \o Fence

\* pat occurs in text at index i
OccursAt(text, i, pat) ==
  /\ i >= 1
  /\ i + Len(pat) - 1 <= Len(text)
  /\ SubSeq(text, i, i + Len(pat) - 1) = pat

\* the character classes [^,\]] and [^\]]
InSigClass(tok) == tok \notin {",", ",CRC=", "]", "[Thinking]"}
InCrcClass(tok) == tok \notin {"]", "[Thinking]"}

\* the end of the longest run of tokens of a class that starts at index i
\* (i - 1 when the run is empty)
RunEnd(text, i, InClass(_)) ==
  LET ends == { j \in (i - 1)..Len(text) :
                  /\ \A k \in i..j : InClass(text[k])
                  /\ j = Len(text) \/ ~InClass(text[j + 1]) }
  IN CHOOSE j \in ends : TRUE

NoTag == [ok |-> FALSE, signature |-> <<>>, crc |-> <<>>, last |-> 0]
\* the group (?:\n\[SIG=([^,\]]+),CRC=([^\]]+)\]) tried at index p
TagAt(text, p) ==
  IF ~OccursAt(text, p, <<"\n", "[SIG=">>) THEN NoTag
  ELSE With(RunEnd(text, p + 2, InSigClass),
         LAMBDA sigEnd :
           IF sigEnd < p + 2 \/ ~OccursAt(text, sigEnd + 1, <<",CRC=">>) THEN NoTag
           ELSE With(RunEnd(text, sigEnd + 2, InCrcClass),
                  LAMBDA crcEnd :
                    IF crcEnd < sigEnd + 2 \/ ~OccursAt(text, crcEnd + 1, <<"]">>)
                    THEN NoTag
                    ELSE [ok |-> TRUE,
                          signature |-> SubSeq(text, p + 2, sigEnd),
                          crc |-> SubSeq(text, sigEnd + 2, crcEnd),
                          last |-> crcEnd + 1]))

NoMatch == [ok |-> FALSE, index |-> 0, last |-> 0, content |-> <<>>,
            signature |-> <<>>, crc |-> <<>>]
\* what follows the lazy content when it stops before index p: the group and the
\* tail, or the tail alone; atEnd is the $ anchor
RestAt(text, start, p, atEnd) ==
  With(TagAt(text, p),
    LAMBDA tag :
      IF tag.ok /\ OccursAt(text, tag.last + 1, EnvelopeTail)
         /\ (atEnd => tag.last + Len(EnvelopeTail) = Len(text))
      THEN [ok |-> TRUE, index |-> start, last |-> tag.last + Len(EnvelopeTail),
            content |-> SubSeq(text, start + Len(EnvelopeHead), p - 1),
            signature |-> tag.signature, crc |-> tag.crc]
      ELSE IF OccursAt(text, p, EnvelopeTail)
              /\ (atEnd => p + Len(EnvelopeTail) - 1 = Len(text))
      THEN [ok |-> TRUE, index |-> start, last |-> p + Len(EnvelopeTail) - 1,
            content |-> SubSeq(text, start + Len(EnvelopeHead), p - 1),
            signature |-> <<>>, crc |-> <<>>]
      ELSE NoMatch)

\* the match that starts at index start, its content as short as possible
MatchAt(text, start, atEnd) ==
  IF ~OccursAt(text, start, EnvelopeHead) THEN NoMatch
  ELSE With({ RestAt(text, start, p, atEnd) :
                p \in (start + Len(EnvelopeHead))..(Len(text) + 1) } \ {NoMatch},
         LAMBDA found :
           IF found = {} THEN NoMatch
           ELSE CHOOSE m \in found : \A n \in found : Len(m.content) <= Len(n.content))

\* thinkingBlockRegex.exec(text) of line 115 with lastIndex at index from: the
\* leftmost match
ExecFrom(text, from) ==
  With({ MatchAt(text, i, FALSE) : i \in from..Len(text) } \ {NoMatch},
    LAMBDA found :
      IF found = {} THEN NoMatch
      ELSE CHOOSE m \in found : \A n \in found : m.index <= n.index)

\* a faulty decoder: an envelope without a trailer is decoded too
DecodeText_AcceptsUnsigned(text) ==
  With(MatchAt(text, 1, TRUE),
    LAMBDA match :
      IF ~match.ok THEN Null
      ELSE [thinking |-> UnescapeBackticks(Trim(match.content)),
            signature |-> match.signature])

\* a faulty decoder: the checksum of the trailer is not compared
DecodeText_NoChecksum(text) ==
  With(MatchAt(text, 1, TRUE),
    LAMBDA match :
      IF ~match.ok THEN Null
      ELSE With(Trim(match.content),
             LAMBDA escapedContent :
               IF escapedContent = <<>> \/ match.signature = <<>> \/ match.crc = <<>>
               THEN Null
               ELSE [thinking |-> UnescapeBackticks(escapedContent),
                     signature |-> match.signature]))

\* lines 54-79 for a text whose value is known
DecodeText(text) ==
  With(MatchAt(text, 1, TRUE),
    LAMBDA match :
      IF ~match.ok THEN Null
      ELSE With(Trim(match.content),
             LAMBDA escapedContent :
               IF escapedContent = <<>> \/ match.signature = <<>> \/ match.crc = <<>>
               THEN Null
               ELSE IF calculateCrc32(escapedContent) # match.crc THEN Null
               ELSE [thinking |-> UnescapeBackticks(escapedContent),
                     signature |-> match.signature]))

\* decodeThinkingBlock (part_000 52-80)
decodeThinkingBlock(text) == With(text, DecodeText)

TextBlock(text) == [type |-> "text", text |-> text]
ThinkingBlock(thinking, signature) ==
  [type |-> "thinking", thinking |-> thinking, signature |-> signature]

\* the loop of lines 115-130 and the rest of lines 132-135
RECURSIVE ParseFrom(_, _)
ParseFrom(text, lastIndex) ==
  With(ExecFrom(text, lastIndex),
    LAMBDA match :
      IF ~match.ok
      THEN With(Trim(SubSeq(text, lastIndex, Len(text))),
             LAMBDA textAfter :
               IF textAfter # <<>> THEN <<TextBlock(textAfter)>> ELSE <<>>)
      ELSE With(Trim(SubSeq(text, lastIndex, match.index - 1)),
             LAMBDA textBefore :
               With(decodeThinkingBlock(SubSeq(text, match.index, match.last)),
                 LAMBDA decoded :
                   (IF textBefore # <<>> THEN <<TextBlock(textBefore)>> ELSE <<>>)
                   \o (IF decoded # Null
                       THEN <<ThinkingBlock(decoded.thinking, decoded.signature)>>
                       ELSE <<>>)
                   \o ParseFrom(text, match.last + 1))))

\* lines 108-141 for a text whose value is known
ParseText(text) ==
  With(ParseFrom(text, 1),
    LAMBDA blocks :
      IF blocks = <<>> /\ Trim(text) # <<>> THEN <<TextBlock(Trim(text))>> ELSE blocks)

\* parseThinkingFromText (part_000 107-142)
parseThinkingFromText(text) == With(text, ParseText)

\* ---------------------------------------------------- request normalizer

\* A message content is null, a string or an array of blocks.
NullContent == [kind |-> "null"]
StringContent(text) == [kind |-> "string", text |-> text]
ArrayContent(blocks) == [kind |-> "array", blocks |-> blocks]

RECURSIVE Flatten(_)
Flatten(seqs) == IF seqs = <<>> THEN <<>> ELSE Head(seqs) \o Flatten(Tail(seqs))

\* Array.prototype.join("\n")
RECURSIVE JoinLines(_)
JoinLines(texts) ==
  IF texts = <<>> THEN <<>>
  ELSE IF Len(texts) = 1 THEN Head(texts)
  ELSE Head(texts) \o <<"\n">> \o JoinLines(Tail(texts))

IsTextBlock(block) == block.type = "text"

\* extractTextContent (part_000 91-101)
extractTextContent(content) ==
  IF content.kind = "string" THEN content.text
  ELSE IF content.kind = "array"
  THEN LET texts == SelectSeq(content.blocks, IsTextBlock)
       IN JoinLines([i \in 1..Len(texts) |-> texts[i].text])
  ELSE <<>>

ToLowerCase(tok) == IF tok = "Thinking" THEN "thinking" ELSE tok

\* a faulty lookup: a name that is not in the table is searched as it is written
mapModelName_CaseSensitive(model) ==
  IF model = <<"claude-4.5-opus-high-thinking">>
  THEN [model |-> <<"claude-opus-4-5-20251101">>, enableThinking |-> TRUE]
  ELSE IF model = <<"claude-4.5-opus">>
  THEN [model |-> <<"claude-opus-4-5-20251101">>, enableThinking |-> FALSE]
  ELSE [model |-> model,
        enableThinking |-> \E i \in 1..Len(model) : model[i] = "thinking"]

\* mapModelName (part_000 147-165); a model name is a sequence of tokens, the
\* names of the table are one token each
mapModelName(model) ==
  IF model = <<"claude-4.5-opus-high-thinking">>
  THEN [model |-> <<"claude-opus-4-5-20251101">>, enableThinking |-> TRUE]
  ELSE IF model = <<"claude-4.5-opus">>
  THEN [model |-> <<"claude-opus-4-5-20251101">>, enableThinking |-> FALSE]
  ELSE IF model = <<"claude-4-opus">>
  THEN [model |-> <<"claude-opus-4-20250514">>, enableThinking |-> FALSE]
  ELSE IF model \in {<<"claude-4-sonnet">>, <<"claude-3.5-sonnet">>}
  THEN [model |-> <<"claude-sonnet-4-20250514">>, enableThinking |-> FALSE]
  ELSE IF model = <<"claude-3-opus">>
  THEN [model |-> <<"claude-3-opus-20240229">>, enableThinking |-> FALSE]
  ELSE IF model = <<"claude-3-sonnet">>
  THEN [model |-> <<"claude-3-sonnet-20240229">>, enableThinking |-> FALSE]
  ELSE IF model = <<"claude-3-haiku">>
  THEN [model |-> <<"claude-3-haiku-20240307">>, enableThinking |-> FALSE]
  ELSE [model |-> model,
        enableThinking |-> \E i \in 1..Len(model) : ToLowerCase(model[i]) = "thinking"]

\* a faulty detector: the content blocks of the messages are not looked at
isAnthropicFormat_NoBlocks(request) ==
  \/ request.system.kind # "undefined"
  \/ request.tools # <<>> /\ request.tools[1].input_schema # <<>>

\* isAnthropicFormat (part_000 282-305)
isAnthropicFormat(request) ==
  \/ request.system.kind # "undefined"
  \/ request.tools # <<>> /\ request.tools[1].input_schema # <<>>
  \/ \E i \in 1..Len(request.messages) :
       /\ request.messages[i].content.kind = "array"
       /\ \E j \in 1..Len(request.messages[i].content.blocks) :
            request.messages[i].content.blocks[j].type \in {"tool_use", "tool_result"}

ToolUseBlock(id, name, input) ==
  [type |-> "tool_use", id |-> id, name |-> name, input |-> input]
ToolResultBlock(id, content) ==
  [type |-> "tool_result", tool_use_id |-> id, content |-> content]
InternalMessage(role, content) == [role |-> role, content |-> content]

\* the system prompt after one more system-role message (328-333, 512-517);
\* <<>> is undefined or ""
SystemAfter(systemPrompt, msg) ==
  IF systemPrompt # <<>>
  THEN systemPrompt \o <<"\n", "\n">> \o extractTextContent(msg.content)
  ELSE extractTextContent(msg.content)

RECURSIVE SystemOver(_, _)
SystemOver(systemPrompt, messages) ==
  IF messages = <<>> THEN systemPrompt
  ELSE SystemOver(IF Head(messages).role = "system"
                  THEN SystemAfter(systemPrompt, Head(messages))
                  ELSE systemPrompt,
                  Tail(messages))

\* one block of a user turn's array content (342-359): zero or one block
UserBlockA(block) ==
  IF block.type = "text" THEN <<TextBlock(block.text)>>
  ELSE IF block.type = "tool_result"
  THEN <<ToolResultBlock(block.tool_use_id, extractTextContent(block.content))>>
  ELSE <<>>

\* a faulty converter: native thinking blocks are discarded, as the older
\* src/src/transform.ts does at line 328
AssistantBlockA_DiscardsThinking(block) ==
  IF block.type = "text" THEN parseThinkingFromText(block.text)
  ELSE IF block.type = "tool_use"
  THEN <<ToolUseBlock(block.id, block.name, block.input)>>
  ELSE <<>>

\* one block of an assistant turn's array content (373-390)
AssistantBlockA(block) ==
  IF block.type = "text" THEN parseThinkingFromText(block.text)
  ELSE IF block.type = "thinking"
  THEN <<ThinkingBlock(block.thinking, block.signature)>>
  ELSE IF block.type = "tool_use"
  THEN <<ToolUseBlock(block.id, block.name, block.input)>>
  ELSE <<>>

\* the body of the loop of lines 326-403 for one message: zero or one turn
MessageA(msg) ==
  With(IF msg.role = "user"
       THEN IF msg.content.kind = "array"
            THEN Flatten([i \in 1..Len(msg.content.blocks) |->
                            UserBlockA(msg.content.blocks[i])])
            ELSE IF extractTextContent(msg.content) # <<>>
            THEN <<TextBlock(extractTextContent(msg.content))>>
            ELSE <<>>
       ELSE IF msg.role = "assistant"
       THEN IF msg.content.kind = "array"
            THEN Flatten([i \in 1..Len(msg.content.blocks) |->
                            AssistantBlockA(msg.content.blocks[i])])
            ELSE IF extractTextContent(msg.content) # <<>>
            THEN parseThinkingFromText(extractTextContent(msg.content))
            ELSE <<>>
       ELSE <<>>,
    LAMBDA content :
      IF msg.role \in {"user", "assistant"} /\ content # <<>>
      THEN <<InternalMessage(msg.role, content)>>
      ELSE <<>>)

\* a faulty parse: a payload that is not JSON gives the empty map
JsonParse_EmptyOnFailure(text) ==
  IF text = <<"{\"q\":1}">> THEN [ok |-> TRUE, value |-> [keys |-> <<"q">>, q |-> 1]]
  ELSE [ok |-> TRUE, value |-> [keys |-> <<>>]]

\* JSON.parse of the argument payloads the requests considered carry
JsonParse(text) ==
  IF text = <<"{}">> THEN [ok |-> TRUE, value |-> [keys |-> <<>>]]
  ELSE IF text = <<"{\"q\":1}">> THEN [ok |-> TRUE, value |-> [keys |-> <<"q">>, q |-> 1]]
  ELSE [ok |-> FALSE]

\* toolCall.function.arguments || "{}"
ArgumentsOrEmpty(arguments) == IF arguments = <<>> THEN <<"{}">> ELSE arguments

\* JSON.parse throws for some tool call of the request (538)
ArgumentsThrow(request) ==
  \E i \in 1..Len(request.messages) :
    /\ request.messages[i].role = "assistant"
    /\ \E j \in 1..Len(request.messages[i].tool_calls) :
         ~JsonParse(ArgumentsOrEmpty(
            request.messages[i].tool_calls[j].function.arguments)).ok

\* a faulty loop body: an assistant turn is pushed whatever its content
MessageB_PushesEmpty(msg) ==
  With(extractTextContent(msg.content),
    LAMBDA textContent :
      IF msg.role = "user"
      THEN IF textContent # <<>>
           THEN <<InternalMessage("user", <<TextBlock(textContent)>>)>> ELSE <<>>
      ELSE IF msg.role = "assistant"
      THEN With([j \in 1..Len(msg.tool_calls) |->
                   ToolUseBlock(msg.tool_calls[j].id,
                                msg.tool_calls[j].function.name,
                                JsonParse(ArgumentsOrEmpty(
                                  msg.tool_calls[j].function.arguments)).value)]
                \o (IF msg.content.kind \in {"string", "array"} /\ textContent # <<>>
                    THEN parseThinkingFromText(textContent) ELSE <<>>),
             LAMBDA content : <<InternalMessage("assistant", content)>>)
      ELSE IF msg.role = "tool" /\ msg.tool_call_id # ""
      THEN <<InternalMessage("user", <<ToolResultBlock(msg.tool_call_id, textContent)>>)>>
      ELSE <<>>)

\* the body of the loop of lines 510-569 for one message: zero or one turn
MessageB(msg) ==
  With(extractTextContent(msg.content),
    LAMBDA textContent :
      IF msg.role = "user"
      THEN IF textContent # <<>>
           THEN <<InternalMessage("user", <<TextBlock(textContent)>>)>> ELSE <<>>
      ELSE IF msg.role = "assistant"
      THEN With([j \in 1..Len(msg.tool_calls) |->
                   ToolUseBlock(msg.tool_calls[j].id,
                                msg.tool_calls[j].function.name,
                                JsonParse(ArgumentsOrEmpty(
                                  msg.tool_calls[j].function.arguments)).value)]
                \o (IF msg.content.kind \in {"string", "array"} /\ textContent # <<>>
                    THEN parseThinkingFromText(textContent) ELSE <<>>),
             LAMBDA content :
               IF content # <<>> THEN <<InternalMessage("assistant", content)>>
               ELSE <<>>)
      ELSE IF msg.role = "tool" /\ msg.tool_call_id # ""
      THEN <<InternalMessage("user", <<ToolResultBlock(msg.tool_call_id, textContent)>>)>>
      ELSE <<>>)

\* ---- the thinking-consistency filter

\* msg.content.some(b => b.type is thinking or redacted_thinking)  (460)
HasThinking(msg) ==
  \E j \in 1..Len(msg.content) : msg.content[j].type \in {"thinking", "redacted_thinking"}

\* the ids the first pass collects (459-466)
RemovedToolIds(messages) ==
  UNION { { messages[i].content[j].id :
              j \in { k \in 1..Len(messages[i].content) :
                        messages[i].content[k].type = "tool_use" } } :
          i \in { k \in 1..Len(messages) :
                    messages[k].role = "assistant" /\ ~HasThinking(messages[k]) } }

Kept(msg) == ~(msg.role = "assistant" /\ ~HasThinking(msg))

\* a faulty filter: the first pass alone, the tool results of the turns it
\* removed stay
RemoveWithoutThinking_FirstPassOnly(messages) == SelectSeq(messages, Kept)

\* a faulty filter: a user turn the second pass leaves without blocks is kept
\* with an empty text block
RemoveWithoutThinking_KeepsEmptied(messages) ==
  With(RemovedToolIds(messages),
    LAMBDA removedToolIds :
      LET NotOrphaned(b) == ~(b.type = "tool_result" /\ b.tool_use_id \in removedToolIds)
          Cleaned(msg) ==
            IF msg.role = "user"
            THEN IF SelectSeq(msg.content, NotOrphaned) = <<>>
                 THEN [msg EXCEPT !.content = <<TextBlock(<<>>)>>]
                 ELSE [msg EXCEPT !.content = SelectSeq(msg.content, NotOrphaned)]
            ELSE msg
      IN With(SelectSeq(messages, Kept),
           LAMBDA filtered :
             IF removedToolIds # {}
             THEN [i \in 1..Len(filtered) |-> Cleaned(filtered[i])]
             ELSE filtered))

\* lines 455-499: the two passes
RemoveWithoutThinking(messages) ==
  With(RemovedToolIds(messages),
    LAMBDA removedToolIds :
      LET NotOrphaned(b) == ~(b.type = "tool_result" /\ b.tool_use_id \in removedToolIds)
          Cleaned(msg) ==
            IF msg.role = "user"
            THEN [msg EXCEPT !.content = SelectSeq(msg.content, NotOrphaned)]
            ELSE msg
          NotEmptied(msg) == ~(msg.role = "user" /\ msg.content = <<>>)
      IN With(SelectSeq(messages, Kept),
           LAMBDA filtered :
             IF removedToolIds # {}
             THEN SelectSeq([i \in 1..Len(filtered) |-> Cleaned(filtered[i])], NotEmptied)
             ELSE filtered))

\* a faulty filter: the two passes run whether or not reasoning is enabled
filterMessagesWithoutThinking_Always(messages, enableThinking) ==
  With(messages, RemoveWithoutThinking)

\* filterMessagesWithoutThinking (part_000 446-500)
filterMessagesWithoutThinking(messages, enableThinking) ==
  IF ~enableThinking THEN messages ELSE With(messages, RemoveWithoutThinking)

\* ---- the two converters

DefaultParameters == [type |-> "object", properties |-> <<>>]

\* the turns before the filter (the local messages at lines 414 and 580)
MessagesA(request) ==
  Flatten([i \in 1..Len(request.messages) |-> MessageA(request.messages[i])])
MessagesB(request) ==
  Flatten([i \in 1..Len(request.messages) |-> MessageB(request.messages[i])])

\* the fields of the Internal Request the two converters build alike (416-425,
\* 582-591); temperature is copied from the request and is left out; <<>> is
\* a field that is undefined, and max_tokens || 4096 gives 4096 for 0 as well
InternalRequest(messages, tools, system, mapped, request) ==
  [messages |-> filterMessagesWithoutThinking(messages, mapped.enableThinking),
   tools |-> tools,
   model |-> mapped.model,
   maxTokens |-> IF OrZero(request.max_tokens) # 0 THEN request.max_tokens[1] ELSE 4096,
   system |-> system,
   stream |-> IF request.stream # <<>> THEN request.stream[1] ELSE FALSE,
   maxThinkingTokens |-> IF mapped.enableThinking THEN <<10000>> ELSE <<>>]

\* anthropicToInternal (part_000 311-426)
anthropicToInternal(request) ==
  LET fromField == extractTextContent(request.system)
      tools == [i \in 1..Len(request.tools) |->
                  [name |-> request.tools[i].name,
                   description |-> request.tools[i].description,
                   parameters |-> IF request.tools[i].input_schema # <<>>
                                  THEN request.tools[i].input_schema[1]
                                  ELSE DefaultParameters]]
  IN InternalRequest(MessagesA(request), tools,
                     SystemOver(fromField, request.messages),
                     mapModelName(request.model), request)

Threw == [threw |-> TRUE]

\* openaiToInternal (part_000 506-592); a tool without a function member makes
\* line 572 throw
openaiToInternal(request) ==
  IF ArgumentsThrow(request) \/ \E i \in 1..Len(request.tools) : request.tools[i].function = <<>>
  THEN Threw
  ELSE LET tools == [i \in 1..Len(request.tools) |->
                       [name |-> request.tools[i].function[1].name,
                        description |-> request.tools[i].function[1].description,
                        parameters |-> IF request.tools[i].function[1].parameters # <<>>
                                       THEN request.tools[i].function[1].parameters[1]
                                       ELSE DefaultParameters]]
       IN InternalRequest(MessagesB(request), tools,
                          SystemOver(<<>>, request.messages),
                          mapModelName(request.model), request)

\* toInternal (part_000 602-607)
toInternal(request) ==
  IF isAnthropicFormat(request) THEN anthropicToInternal(request)
  ELSE openaiToInternal(request)

\* ---- the request bodies considered

Hi == <<"h", "i">>
Ok == <<"o", "k">>
EmptyInput == [keys |-> <<>>]
\* an envelope as internalToOpenai writes it, and one whose content was altered
ValidEnvelope == encodeThinkingBlock(<<"a">>, <<"s">>)
TamperedEnvelope == [ValidEnvelope EXCEPT ![Len(EnvelopeHead) + 1] = "b"]

Message(role, content, toolCalls, toolCallId) ==
  [role |-> role, content |-> content, tool_calls |-> toolCalls,
   tool_call_id |-> toolCallId]
RawToolUse(id) == ToolUseBlock(id, <<"search">>, EmptyInput)
RawToolResult(id, content) == [type |-> "tool_result", tool_use_id |-> id, content |-> content]
ToolCall(id, arguments) ==
  [id |-> id, type |-> "function",
   function |-> [name |-> <<"search">>, arguments |-> arguments]]

ModelNames ==
  { <<"claude-4.5-opus-high-thinking">>, <<"claude-4.5-opus">>, <<"x-", "Thinking">> }
\* a body without messages: no system field and no tools, a system field and a
\* tool with an input_schema, no system field and a tool with a function
RequestShapes ==
  { [system |-> [kind |-> "undefined"], tools |-> <<>>,
     max_tokens |-> <<>>, stream |-> <<>>],
    [system |-> StringContent(<<"s">>),
     tools |-> <<[name |-> <<"search">>, description |-> <<>>,
                  input_schema |-> <<EmptyInput>>, function |-> <<>>]>>,
     max_tokens |-> <<100>>, stream |-> <<TRUE>>],
    [system |-> [kind |-> "undefined"],
     tools |-> <<[name |-> <<>>, description |-> <<>>, input_schema |-> <<>>,
                  function |-> <<[name |-> <<"search">>, description |-> <<"d">>,
                                  parameters |-> <<>>]>>]>>,
     max_tokens |-> <<0>>, stream |-> <<FALSE>>] }

UserMessages ==
  { Message("user", StringContent(Hi), <<>>, ""),
    Message("user", ArrayContent(<<RawToolResult("t1", StringContent(Ok)),
                                   RawToolResult("t2", ArrayContent(<<TextBlock(Ok)>>))>>),
            <<>>, ""),
    Message("user", ArrayContent(<<RawToolResult("t2", StringContent(Ok))>>), <<>>, "") }
AssistantMessages ==
  { Message("assistant", ArrayContent(<<ThinkingBlock(<<"a">>, <<"s">>), RawToolUse("t1")>>),
            <<>>, ""),
    Message("assistant", ArrayContent(<<RawToolUse("t2")>>), <<>>, ""),
    Message("assistant", ArrayContent(<<TextBlock(Hi), ThinkingBlock(<<"a">>, <<"s">>)>>),
            <<>>, ""),
    Message("assistant", StringContent(ValidEnvelope), <<ToolCall("t1", <<"{}">>)>>, ""),
    Message("assistant", StringContent(Hi \o <<"\n">> \o TamperedEnvelope), <<>>, ""),
    Message("assistant", StringContent(<<" ">>), <<>>, ""),
    Message("assistant", NullContent, <<ToolCall("t2", <<"{bad">>)>>, "") }
ToolMessages == { Message("tool", StringContent(Ok), <<>>, "t1") }

\* ---- the route handler up to the normalized request (part_001 87-131)

\* one more message of the body that is being received
Receive(msg) ==
  /\ body' = [body EXCEPT !.messages = Append(@, msg)]
  /\ UNCHANGED <<internalRequest, npc, handlerVars>>
  /\ UNCHANGED <<streamVars, routeVars, codecVars, suspended>>

ReceiveUserMessage ==
  /\ npc = "receiving" /\ Len(body.messages) < MaxMessages
  /\ rawBody = "json"
  /\ \E msg \in UserMessages : Receive(msg)
ReceiveAssistantMessage ==
  /\ npc = "receiving" /\ Len(body.messages) < MaxMessages
  /\ rawBody = "json"
  /\ \E msg \in AssistantMessages : Receive(msg)
ReceiveToolMessage ==
  /\ npc = "receiving" /\ Len(body.messages) < MaxMessages
  /\ rawBody = "json"
  /\ \E msg \in ToolMessages : Receive(msg)

ErrorBody(message, type, code) ==
  [error |-> [message |-> message, type |-> type, code |-> code]]

\* a faulty handler: body.model is not looked at
Rejection_ModelUnchecked ==
  IF rawBody # "json"
  THEN [error |-> [message |-> "Invalid JSON in request body",
                   type |-> "invalid_request_error"]]
  ELSE IF body.messages = <<>>
  THEN ErrorBody("messages is required", "invalid_request_error",
                 "missing_required_parameter")
  ELSE Null

\* lines 91-110: the answer to a body that is not JSON, has no model or has no
\* message; Null when there is none (<<>> is undefined, "" or [])
Rejection ==
  IF rawBody # "json"
  THEN [error |-> [message |-> "Invalid JSON in request body",
                   type |-> "invalid_request_error"]]
  ELSE IF body.model = <<>>
  THEN ErrorBody("model is required", "invalid_request_error",
                 "missing_required_parameter")
  ELSE IF body.messages = <<>>
  THEN ErrorBody("messages is required", "invalid_request_error",
                 "missing_required_parameter")
  ELSE Null

\* lines 89-110: the body is answered 400
RejectRequest ==
  /\ npc = "receiving"
  /\ Rejection # Null
  /\ npc' = "rejected"
  /\ status' = 400
  /\ answer' = Rejection
  /\ UNCHANGED <<body, internalRequest, submitted, rawBody, thrown, artifacts, prompt, response>>
  /\ UNCHANGED <<streamVars, routeVars, codecVars, suspended>>

\* lines 117-123: internalRequest = toInternal(body); what it throws is rethrown
Normalize ==
  /\ npc = "receiving"
  /\ Rejection = Null
  /\ \E result \in {toInternal(body)} :
       IF result = Threw
       THEN npc' = "threw" /\ thrown' = "TransformError" /\ UNCHANGED internalRequest
       ELSE npc' = "normalized" /\ internalRequest' = result /\ UNCHANGED thrown
  /\ UNCHANGED <<body, submitted, status, answer, rawBody, artifacts, prompt, response>>
  /\ UNCHANGED <<streamVars, routeVars, codecVars, suspended>>

\* lines 125-131: processRequest(internalRequest) is called
Submit ==
  /\ npc = "normalized"
  /\ submitted' = Append(submitted, internalRequest)
  /\ npc' = "submitted"
  /\ UNCHANGED <<body, internalRequest, status, answer, rawBody, thrown, artifacts, prompt, response>>
  /\ UNCHANGED <<streamVars, routeVars, codecVars, suspended>>

\* a faulty catch clause: the error body has no code
AnswerError_NoCode ==
  /\ npc = "threw"
  /\ status' = 500
  /\ answer' = [error |-> [message |-> thrown, type |-> "api_error"]]
  /\ npc' = "answered"
  /\ UNCHANGED <<body, internalRequest, submitted, rawBody, thrown, artifacts, prompt, response>>
  /\ UNCHANGED <<streamVars, routeVars, codecVars, suspended>>

\* lines 203-219: what toInternal or processRequest threw is answered with
\* status 500
AnswerError ==
  /\ npc = "threw"
  /\ status' = 500
  /\ answer' = [error |-> [message |-> thrown, type |-> "api_error",
                           code |-> "internal_error", stack |-> <<"stack">>]]
  /\ npc' = "answered"
  /\ UNCHANGED <<body, internalRequest, submitted, rawBody, thrown, artifacts, prompt, response>>
  /\ UNCHANGED <<streamVars, routeVars, codecVars, suspended>>

\* ---- processRequest (sdk.ts 373-602) and the rest of the route handler
\* (part_001 125-220)

\* what processRequest steps leave alone besides the handler's own variables
streamOwn == <<feed, hasSeenToolUse, currentToolId, inThinkingBlock,
               thinkingSignature, usage, messageStopSent, emitted>>

\* hasToolResult (sdk.ts 93-97)
hasToolResult(messages) ==
  \E i \in 1..Len(messages) :
    \E j \in 1..Len(messages[i].content) : messages[i].content[j].type = "tool_result"

\* a faulty test: only an assistant message makes a request a resumed one
needsResume_AssistantOnly(messages) ==
  \E i \in 1..Len(messages) : messages[i].role = "assistant"

\* needsResume (sdk.ts 376-377)
needsResume(messages) ==
  hasToolResult(messages) \/ \E i \in 1..Len(messages) : messages[i].role = "assistant"

\* ---- buildJsonlHistory (sdk.ts 99-243)

IsReasoningBlock(block) == block.type \in {"thinking", "redacted_thinking"}

\* a faulty rewrite: the name is left as the caller wrote it
Namespaced_Bare(block) == block

\* the rewrite of a tool_use block (153-158, 190-193)
Namespaced(block) ==
  IF block.type = "tool_use" THEN [block EXCEPT !.name = MCP_PREFIX \o @] ELSE block

\* content.findIndex(tool_use), counted from 1
FirstToolUseIndex(content) ==
  CHOOSE i \in 1..Len(content) :
    /\ content[i].type = "tool_use"
    /\ \A j \in 1..(i - 1) : content[j].type # "tool_use"

\* a faulty split: always at the first tool_use
SplitIndex_AtToolUse(content) == FirstToolUseIndex(content)

\* splitIndex (115-121), counted from 1
SplitIndex(content) ==
  LET first == FirstToolUseIndex(content)
  IN IF first > 1 /\ IsReasoningBlock(content[first - 1]) THEN first - 1 ELSE first

\* the fields of a record the claims are about; a uuid is the number of the
\* randomUUID call that made it, 0 is null
HistoryRecord(parent, uuid, role, content, stop) ==
  [parentUuid |-> parent, sessionId |-> "session", type |-> role,
   content |-> content, stop_reason |-> stop, uuid |-> uuid]

\* a faulty first part: prevUuid is not set to textUuid
FirstPartLink_Stale(parent, textUuid) == parent

\* prevUuid after the record of the first part (150)
FirstPartLink(parent, textUuid) == textUuid

\* the records of a turn that takes the split path (114-185)
SplitRecords(msg, parent, fresh) ==
  LET splitIndex == SplitIndex(msg.content)
      firstPart == SubSeq(msg.content, 1, splitIndex - 1)
      rest == SubSeq(msg.content, splitIndex, Len(msg.content))
      secondPart == [i \in 1..Len(rest) |-> Namespaced(rest[i])]
  IN IF Len(firstPart) > 0
     THEN <<HistoryRecord(parent, fresh, "assistant", firstPart, "null"),
            HistoryRecord(FirstPartLink(parent, fresh), fresh + 1, "assistant",
                          secondPart, "tool_use")>>
     ELSE <<HistoryRecord(parent, fresh, "assistant", secondPart, "tool_use")>>

\* the record of any other turn (188-243)
PlainRecord(msg, parent, fresh) ==
  LET transformed == [i \in 1..Len(msg.content) |-> Namespaced(msg.content[i])]
      IsOther(block) == ~IsReasoningBlock(block)
      ordered == IF msg.role = "assistant"
                 THEN SelectSeq(transformed, IsReasoningBlock)
                      \o SelectSeq(transformed, IsOther)
                 ELSE transformed
      hasToolUse == \E i \in 1..Len(msg.content) : msg.content[i].type = "tool_use"
  IN <<HistoryRecord(parent, fresh, msg.role, ordered,
                     IF msg.role = "assistant"
                     THEN (IF hasToolUse THEN "tool_use" ELSE "end_turn")
                     ELSE "null")>>

\* the test of line 114
TakesSplitPath(msg) ==
  /\ msg.role = "assistant"
  /\ \E i \in 1..Len(msg.content) : msg.content[i].type = "tool_use"
  /\ \E i \in 1..Len(msg.content) :
       msg.content[i].type = "text" \/ IsReasoningBlock(msg.content[i])

\* the loop of lines 109-243 from the messages left, the records written so far
\* and prevUuid
RECURSIVE HistoryFrom(_, _, _)
HistoryFrom(messages, records, parent) ==
  IF messages = <<>> THEN records
  ELSE LET msg == Head(messages)
           added == IF TakesSplitPath(msg)
                    THEN SplitRecords(msg, parent, Len(records) + 1)
                    ELSE PlainRecord(msg, parent, Len(records) + 1)
       IN HistoryFrom(Tail(messages), records \o added, added[Len(added)].uuid)

buildJsonlHistory(messages) == HistoryFrom(messages, <<>>, 0)

\* await mkdir / await writeFile (sdk.ts 245-249, 365-368): what the caller of
\* the write does when it was made (ok) or was refused
WriteOutcome(ok) == IF ok THEN "go on" ELSE "throw"

\* sdk.ts 379-380: the request is written to debug-requests/
SaveRequestBody ==
  /\ npc = "submitted"
  /\ \E ok \in BOOLEAN :
       /\ artifacts' = Append(artifacts, [file |-> "request", written |-> ok])
       /\ IF WriteOutcome(ok) = "throw"
          THEN npc' = "threw" /\ thrown' = "EACCES"
          ELSE npc' = "saved" /\ UNCHANGED thrown
  /\ UNCHANGED <<body, internalRequest, submitted, status, answer, rawBody, prompt,
                 response>>
  /\ UNCHANGED <<streamVars, routeVars, codecVars, suspended>>

RESUME_NO_USER_MSG == <<"__RESUME_NO_USER_MSG__">>

IsUserMessage(msg) == msg.role = "user"

\* sdk.ts 402-409: the text blocks of the last user message, joined by newlines
LastUserPrompt(messages) ==
  LET lastUserMsg == Last(SelectSeq(messages, IsUserMessage))
      texts == SelectSeq(lastUserMsg.content, IsTextBlock)
  IN JoinLines([i \in 1..Len(texts) |-> texts[i].text])

\* sdk.ts 396-411: the prompt; a resumed request has its transcript built and
\* written, any other needs a user message
Prepare ==
  /\ npc = "saved"
  /\ IF needsResume(internalRequest.messages)
     THEN \E ok \in BOOLEAN :
            /\ artifacts' = Append(artifacts,
                                   [file |-> "jsonl", written |-> ok,
                                    lines |-> buildJsonlHistory(internalRequest.messages)])
            /\ IF WriteOutcome(ok) = "throw"
               THEN npc' = "threw" /\ thrown' = "EACCES" /\ UNCHANGED prompt
               ELSE npc' = "ready" /\ prompt' = RESUME_NO_USER_MSG /\ UNCHANGED thrown
     ELSE /\ UNCHANGED artifacts
          /\ IF SelectSeq(internalRequest.messages, IsUserMessage) # <<>>
             THEN /\ npc' = "ready"
                  /\ prompt' = LastUserPrompt(internalRequest.messages)
                  /\ UNCHANGED thrown
             ELSE npc' = "threw" /\ thrown' = "No user message found" /\ UNCHANGED prompt
  /\ UNCHANGED <<body, internalRequest, submitted, status, answer, rawBody, response>>
  /\ UNCHANGED <<streamVars, routeVars, codecVars, suspended>>

\* the locals of the non-streaming loop at its start (sdk.ts 507-511)
InitialLocals ==
  [content |-> <<>>, stopReason |-> "null", usage |-> InitialUsage,
   hasToolUse |-> FALSE]

\* sdk.ts 496-511 and part_001 133-139: the query is made; a streaming request
\* gets the generator and the handler answers with the event stream, any other
\* enters the loop over q
Query ==
  /\ npc = "ready"
  /\ IF internalRequest.stream
     THEN /\ npc' = "streaming"
          /\ hasTools' = (internalRequest.tools # <<>>)
          /\ gpc' = "start"
          /\ rpc' = "start"
          /\ status' = 200
          /\ UNCHANGED response
     ELSE /\ npc' = "bridging"
          /\ response' = InitialLocals
          /\ UNCHANGED <<hasTools, gpc, rpc, status>>
  /\ UNCHANGED <<body, internalRequest, submitted, answer, rawBody, thrown, artifacts, prompt>>
  /\ UNCHANGED <<consumed, aborted, bridgeFault, streamOwn>>
  /\ UNCHANGED <<cur, isFirstChunk, currentToolIndex, done, accumulatedThinking,
                 keepAliveInterval, ticks, chan, writeFailed, out>>
  /\ UNCHANGED <<codecVars, suspended>>

\* SDK messages q delivers to the non-streaming loop
AssistantContents ==
  { <<TextBlock(<<"x">>)>>,
    <<ThinkingBlock(<<"a">>, <<"s">>),
      ToolUseBlock("t1", MCP_PREFIX \o <<"search">>, EmptyInput)>> }
NonStreamMessages ==
  { [type |-> "assistant", usage |-> o, content |-> c] :
      o \in {<<>>, <<StartUsage>>}, c \in AssistantContents }
  \cup { [type |-> "result", subtype |-> t, usage |-> o] :
           t \in {"success", "error_during_execution"}, o \in {<<>>, <<ResultUsage>>} }
  \cup { [type |-> "system"] }

\* one block of an assistant message (sdk.ts 528-547)
PushBlock(locals, block) ==
  IF block.type = "tool_use"
  THEN [locals EXCEPT
          !.content = Append(@, ToolUseBlock(block.id, sdkToApi(block.name), block.input)),
          !.hasToolUse = TRUE,
          !.stopReason = "tool_use"]
  ELSE IF block.type = "text"
  THEN [locals EXCEPT !.content = Append(@, TextBlock(block.text))]
  ELSE IF block.type = "thinking"
  THEN [locals EXCEPT !.content = Append(@, ThinkingBlock(block.thinking, block.signature))]
  ELSE locals

RECURSIVE PushBlocks(_, _)
PushBlocks(locals, blocks) ==
  IF blocks = <<>> THEN locals
  ELSE PushBlocks(PushBlock(locals, Head(blocks)), Tail(blocks))

\* what the loop body leaves alone
LoopFrame ==
  /\ UNCHANGED <<body, internalRequest, submitted, status, answer, rawBody, artifacts, prompt>>
  /\ UNCHANGED <<hasTools, gpc, streamOwn>>
  /\ UNCHANGED <<routeVars, codecVars, suspended>>

\* an assistant message (sdk.ts 515-556)
NonStreamAssistant ==
  /\ npc = "bridging"
  /\ Len(consumed) < MaxEvents
  /\ \E msg \in NonStreamMessages :
       /\ msg.type = "assistant"
       /\ consumed' = Append(consumed, msg)
       /\ response' =
            PushBlocks([response EXCEPT
                          !.usage = IF msg.usage # <<>> THEN UsageFrom(msg.usage[1]) ELSE @],
                       msg.content)
       /\ aborted' = (aborted \/ (response'.hasToolUse /\ internalRequest.tools # <<>>))
  /\ UNCHANGED <<npc, thrown, bridgeFault>>
  /\ LoopFrame

\* a faulty result branch: the stopReason is set whatever it was
ResultStopReason_Overwrites(locals, subtype) ==
  IF subtype = "success" THEN "end_turn" ELSE "null"

\* the stopReason after a result message (sdk.ts 569-571)
ResultStopReason(locals, subtype) ==
  IF locals.stopReason # "null" THEN locals.stopReason
  ELSE IF subtype = "success" THEN "end_turn" ELSE "null"

\* a result message (sdk.ts 559-573): usage, stopReason, break
NonStreamResult ==
  /\ npc = "bridging"
  /\ Len(consumed) < MaxEvents
  /\ \E msg \in NonStreamMessages :
       /\ msg.type = "result"
       /\ consumed' = Append(consumed, msg)
       /\ response' = [response EXCEPT
                         !.usage = IF msg.usage # <<>> THEN UsageFrom(msg.usage[1]) ELSE @,
                         !.stopReason = ResultStopReason(response, msg.subtype)]
  /\ npc' = "returned"
  /\ UNCHANGED <<thrown, aborted, bridgeFault>>
  /\ LoopFrame

\* a message of another type
NonStreamOther ==
  /\ npc = "bridging"
  /\ Len(consumed) < MaxEvents
  /\ consumed' = Append(consumed, [type |-> "system"])
  /\ UNCHANGED <<npc, thrown, response, aborted, bridgeFault>>
  /\ LoopFrame

\* q ends
NonStreamEnd ==
  /\ npc = "bridging"
  /\ npc' = "returned"
  /\ UNCHANGED <<thrown, response, consumed, aborted, bridgeFault>>
  /\ LoopFrame

\* q raises (sdk.ts 575-582): a cancellation is swallowed, anything else rethrown
NonStreamThrow ==
  /\ npc = "bridging"
  /\ \E name \in BridgeFaults :
       /\ bridgeFault' = name
       /\ IF IsAbortError(name)
          THEN npc' = "returned" /\ UNCHANGED thrown
          ELSE npc' = "threw" /\ thrown' = name
  /\ UNCHANGED <<response, consumed, aborted>>
  /\ LoopFrame

\* JSON.stringify of the inputs considered
JsonStringify(value) ==
  IF value.keys = <<>> THEN <<"{}">> ELSE <<"{\"q\":1}">>

\* the text a block adds to textContent (part_000 622-636): <<>> for none
BlockText(block) ==
  IF block.type = "text" THEN <<block.text>>
  ELSE IF block.type = "thinking"
  THEN <<encodeThinkingBlock(block.thinking, block.signature)>>
  ELSE IF block.type = "redacted_thinking"
  THEN <<encodeThinkingBlock(block.data, <<>>)>>
  ELSE <<>>

IsToolUseBlock(block) == block.type = "tool_use"

\* a faulty mapping: the stop reason tool_use is not known
FinishReason_NoToolCalls(stopReason) ==
  IF stopReason = "end_turn" THEN "stop"
  ELSE IF stopReason = "max_tokens" THEN "length"
  ELSE "null"

\* part_000 642-649
FinishReason(stopReason) ==
  IF stopReason = "end_turn" THEN "stop"
  ELSE IF stopReason = "max_tokens" THEN "length"
  ELSE IF stopReason = "tool_use" THEN "tool_calls"
  ELSE "null"

\* a faulty count: the cached tokens are left out of the prompt
PromptTokens_NoCache(u) == u.inputTokens

\* part_000 668
PromptTokens(u) ==
  u.inputTokens + OrZero(u.cacheCreationInputTokens) + OrZero(u.cacheReadInputTokens)

\* internalToOpenai (part_000 618-673); id and created are left out
internalToOpenai(resp, requestModel) ==
  LET textContent == Flatten([i \in 1..Len(resp.content) |-> BlockText(resp.content[i])])
      uses == SelectSeq(resp.content, IsToolUseBlock)
      toolCalls == [i \in 1..Len(uses) |->
                      [id |-> uses[i].id, type |-> "function",
                       function |-> [name |-> uses[i].name,
                                     arguments |-> JsonStringify(uses[i].input)]]]
  IN [object |-> "chat.completion",
      model |-> requestModel,
      message |-> [role |-> "assistant",
                   content |-> IF Len(textContent) > 0
                               THEN <<Flatten(textContent)>> ELSE <<>>,
                   tool_calls |-> toolCalls],
      finish_reason |-> FinishReason(resp.stopReason),
      usage |-> [prompt_tokens |-> PromptTokens(resp.usage),
                 completion_tokens |-> resp.usage.outputTokens,
                 total_tokens |-> PromptTokens(resp.usage) + resp.usage.outputTokens]]

\* part_001 200-201: the non-streaming answer
Respond ==
  /\ npc = "returned"
  /\ status' = 200
  /\ answer' = internalToOpenai(response, body.model)
  /\ npc' = "answered"
  /\ UNCHANGED <<body, internalRequest, submitted, rawBody, thrown, artifacts, prompt, response>>
  /\ UNCHANGED <<streamVars, routeVars, codecVars, suspended>>


InitNorm ==
  /\ TurnInit
  /\ feed = "mixed"
  /\ hasTools = FALSE
  /\ \/ /\ rawBody = "json"
        /\ \E model \in ModelNames, shape \in RequestShapes :
             body = [model |-> model, system |-> shape.system, tools |-> shape.tools,
                     messages |-> <<>>, max_tokens |-> shape.max_tokens,
                     stream |-> shape.stream]
     \/ /\ rawBody = "json"
        /\ body = NoRequest
     \/ /\ rawBody = "text"
        /\ body = NoRequest
  /\ internalRequest = Null
  /\ submitted = <<>>
  /\ status = 0
  /\ answer = Null
  /\ thrown = "none"
  /\ artifacts = <<>>
  /\ prompt = <<>>
  /\ suspended = <<>>
  /\ response = Null
  /\ npc = "receiving"
  /\ CodecIdle

NextNorm ==
  \/ ReceiveUserMessage
  \/ ReceiveAssistantMessage
  \/ ReceiveToolMessage
  \/ RejectRequest
  \/ Normalize
  \/ Submit
  \/ AnswerError

SpecNorm == InitNorm /\ [][NextNorm]_vars

\* ---- toInternal on its own: the handler is given a whole body

MaxBodyMessages == 2

\* the message lists of at most n messages
RECURSIVE MessageListsUpTo(_)
MessageListsUpTo(n) ==
  IF n = 0 THEN {<<>>}
  ELSE With(MessageListsUpTo(n - 1),
            LAMBDA shorter :
              shorter \cup { Append(h, m) :
                               h \in shorter,
                               m \in UserMessages \cup AssistantMessages \cup ToolMessages })

InitBodies ==
  /\ TurnInit
  /\ feed = "mixed"
  /\ hasTools = FALSE
  /\ rawBody = "json"
  /\ \E model \in ModelNames, shape \in RequestShapes,
        given \in MessageListsUpTo(MaxBodyMessages) :
       body = [model |-> model, system |-> shape.system, tools |-> shape.tools,
               messages |-> given, max_tokens |-> shape.max_tokens,
               stream |-> shape.stream]
  /\ internalRequest = Null
  /\ submitted = <<>>
  /\ status = 0
  /\ answer = Null
  /\ thrown = "none"
  /\ artifacts = <<>>
  /\ prompt = <<>>
  /\ suspended = <<>>
  /\ response = Null
  /\ npc = "receiving"
  /\ CodecIdle

NextBodies ==
  \/ RejectRequest
  \/ Normalize
  \/ Submit
  \/ AnswerError

SpecBodies == InitBodies /\ [][NextBodies]_vars

\* ---- a request from its arrival to its answer: the route handler,
\* processRequest and, for a streaming request, a turn of text

RequestModels == ModelNames \cup { <<"gpt-4">> }

\* the messages and the rest of the bodies considered: a user turn, the same
\* with a tool and streamed, a tool call whose arguments are not JSON, a user
\* turn without text, a tool result sent back, a system message alone, two user
\* turns, a tool result without the turn that asked for it
RequestRests ==
  { [shape |-> 1, messages |-> <<Message("user", StringContent(Hi), <<>>, "")>>],
    [shape |-> 2, messages |-> <<Message("user", StringContent(Hi), <<>>, "")>>],
    [shape |-> 1,
     messages |-> <<Message("assistant", NullContent, <<ToolCall("t2", <<"{bad">>)>>, "")>>],
    [shape |-> 1, messages |-> <<Message("user", StringContent(<<>>), <<>>, "")>>],
    [shape |-> 3,
     messages |-> <<Message("user", StringContent(Hi), <<>>, ""),
                    Message("assistant", StringContent(ValidEnvelope),
                            <<ToolCall("t1", <<"{}">>)>>, ""),
                    Message("tool", StringContent(Ok), <<>>, "t1")>>],
    [shape |-> 1, messages |-> <<Message("system", StringContent(Hi), <<>>, "")>>],
    [shape |-> 2,
     messages |-> <<Message("user", StringContent(Hi), <<>>, ""),
                    Message("user", ArrayContent(<<TextBlock(Ok), TextBlock(Hi)>>),
                            <<>>, "")>>],
    [shape |-> 2,
     messages |-> <<Message("user",
                            ArrayContent(<<RawToolResult("t1", StringContent(Ok))>>),
                            <<>>, "")>>] }

ShapeOf(n) ==
  CHOOSE shape \in RequestShapes :
    shape.max_tokens = (IF n = 1 THEN <<>> ELSE IF n = 2 THEN <<100>> ELSE <<0>>)

InitRequest ==
  /\ TurnFresh
  /\ gpc = "idle"
  /\ rpc = "idle"
  /\ feed = "plain"
  /\ hasTools = FALSE
  /\ \/ /\ rawBody = "json"
        /\ \E model \in RequestModels, rest \in RequestRests :
             body = [model |-> model, system |-> ShapeOf(rest.shape).system,
                     tools |-> ShapeOf(rest.shape).tools,
                     messages |-> rest.messages,
                     max_tokens |-> ShapeOf(rest.shape).max_tokens,
                     stream |-> ShapeOf(rest.shape).stream]
     \/ /\ rawBody \in {"json", "text"}
        /\ body = NoRequest
  /\ internalRequest = Null
  /\ submitted = <<>>
  /\ status = 0
  /\ answer = Null
  /\ thrown = "none"
  /\ artifacts = <<>>
  /\ prompt = <<>>
  /\ suspended = <<>>
  /\ response = Null
  /\ npc = "receiving"
  /\ CodecIdle

NextRequest ==
  \/ RejectRequest
  \/ Normalize
  \/ Submit
  \/ SaveRequestBody
  \/ Prepare
  \/ Query
  \/ NonStreamAssistant
  \/ NonStreamResult
  \/ NonStreamOther
  \/ NonStreamEnd
  \/ NonStreamThrow
  \/ Respond
  \/ AnswerError
  \/ OnContentBlockDelta
  \/ OnResult
  \/ OnBridgeEnd
  \/ OnBridgeThrow
  \/ ResumeStart
  \/ ResumeSimple
  \/ ResumeResultStop
  \/ ResumeFallback
  \/ RouteConnect
  \/ RouteOnEvent
  \/ RouteAfterChunk
  \/ RouteAfterDone
  \/ RouteLoopExit
  \/ RouteCatch
  \/ RouteAfterError
  \/ RouteAfterErrorDone
  \/ RouteFinally

SpecRequest == InitRequest /\ [][NextRequest]_vars

\* ---- buildJsonlHistory on its own: the histories of a resumed request

MaxTurns == 2

RedactedBlock == [type |-> "redacted_thinking", data |-> <<"d">>]
Reasoned == ThinkingBlock(<<"a">>, <<"s">>)
Said == TextBlock(Hi)
Called(id) ==
  ToolUseBlock(id, IF id = "t1" THEN <<"search">> ELSE <<"get", "_file">>, EmptyInput)

\* turns as the normalizer leaves them: content is never empty
HistoryTurns ==
  { InternalMessage("user", <<Said>>),
    InternalMessage("user", <<ToolResultBlock("t1", <<TextBlock(Ok)>>)>>) }
  \cup { InternalMessage("assistant", c) :
           c \in { <<Said>>,
                   <<Called("t1")>>,
                   <<Said, Called("t1")>>,
                   <<Reasoned, Called("t1")>>,
                   <<RedactedBlock, Called("t1")>>,
                   <<Said, Reasoned, Called("t1")>>,
                   <<Reasoned, Said, Called("t1"), Called("t2")>>,
                   <<Called("t1"), Said>>,
                   <<Called("t1"), Reasoned>>,
                   <<Said, Reasoned>>,
                   <<Said, Reasoned, Said, Called("t1")>>,
                   <<Said, Called("t1"), Reasoned, Called("t2")>> } }

RECURSIVE HistoriesUpTo(_)
HistoriesUpTo(n) ==
  IF n = 0 THEN {<<>>}
  ELSE With(HistoriesUpTo(n - 1),
            LAMBDA shorter : shorter \cup { Append(h, t) : h \in shorter, t \in HistoryTurns })

InitHistory ==
  /\ TurnFresh
  /\ gpc = "idle"
  /\ rpc = "idle"
  /\ feed = "plain"
  /\ hasTools = FALSE
  /\ rawBody = "json"
  /\ body = NoRequest
  /\ \E h \in HistoriesUpTo(MaxTurns) \ {<<>>} :
       internalRequest = [messages |-> h, tools |-> <<>>, model |-> <<"m">>,
                          maxTokens |-> 4096, system |-> <<>>, stream |-> FALSE,
                          maxThinkingTokens |-> <<>>]
  /\ submitted = <<internalRequest>>
  /\ status = 0
  /\ answer = Null
  /\ thrown = "none"
  /\ artifacts = <<[file |-> "request", written |-> TRUE]>>
  /\ prompt = <<>>
  /\ suspended = <<>>
  /\ response = Null
  /\ npc = "saved"
  /\ CodecIdle

NextHistory ==
  \/ Prepare
  \/ AnswerError

SpecHistory == InitHistory /\ [][NextHistory]_vars

\* ---- the codec on its own: a text is encoded, may be altered on its way through
\* the client, and comes back to decodeThinkingBlock or parseThinkingFromText

CodecTokens == {"a", " ", "\n", "BT"}
\* the texts of at most n tokens
RECURSIVE TextsUpTo(_)
TextsUpTo(n) ==
  IF n = 0 THEN {<<>>}
  ELSE With(TextsUpTo(n - 1),
         LAMBDA shorter :
           shorter \cup { Append(t, c) : t \in { u \in shorter : Len(u) = n - 1 },
                                         c \in CodecTokens })
Signatures == {<<>>, <<"s">>}
\* what the client puts around the envelope in the text it sends back
Surroundings == { [before |-> <<>>, after |-> <<>>],
                  [before |-> Hi \o <<"\n">>, after |-> <<>>],
                  [before |-> <<>>, after |-> Ok] }
\* the tokens an altered token is replaced by
Replacements == {"a", "b", " "}

codecFrame ==
  UNCHANGED <<streamVars, routeVars, body, internalRequest, npc, handlerVars, suspended>>

\* internalToOpenai's call at line 635 or 638
Encode ==
  /\ cpc = "input"
  /\ envelope' = encodeThinkingBlock(reasoning, sigInput)
  /\ cpc' = "encoded"
  /\ UNCHANGED <<reasoning, sigInput, tamperedAt, decodeResult, parseResult>>
  /\ codecFrame

\* where the content of an envelope starts, and where it ends when the escaped
\* reasoning text is escaped
ContentFirst == Len(EnvelopeHead) + 1
ContentLast(escaped) == Len(EnvelopeHead) + Len(escaped)

\* one token of the content of a signed envelope is replaced by another
Tamper ==
  /\ cpc = "encoded"
  /\ sigInput # <<>>
  /\ \E i \in ContentFirst..ContentLast(EscapeBackticks(reasoning)), c \in Replacements :
       /\ c # envelope[i]
       /\ envelope' = [envelope EXCEPT ![i] = c]
       /\ tamperedAt' = i
  /\ cpc' = "encoded"
  /\ tamperedAt = 0
  /\ UNCHANGED <<reasoning, sigInput, decodeResult, parseResult>>
  /\ codecFrame

\* decodeThinkingBlock on the envelope as encodeThinkingBlock returned it
Decode ==
  /\ cpc = "encoded"
  /\ decodeResult' = decodeThinkingBlock(envelope)
  /\ cpc' = "decoded"
  /\ UNCHANGED <<reasoning, sigInput, envelope, tamperedAt, parseResult>>
  /\ codecFrame

\* parseThinkingFromText on a text that holds the envelope (lines 374, 395, 546)
Parse ==
  /\ cpc = "encoded"
  /\ \E around \in Surroundings :
       /\ envelope' = around.before \o envelope \o around.after
       /\ parseResult' = parseThinkingFromText(envelope')
  /\ cpc' = "parsed"
  /\ UNCHANGED <<reasoning, sigInput, tamperedAt, decodeResult>>
  /\ codecFrame

InitCodec ==
  /\ TurnInit
  /\ feed = "mixed"
  /\ hasTools = FALSE
  /\ body = NoRequest
  /\ internalRequest = Null
  /\ submitted = <<>>
  /\ status = 0
  /\ answer = Null
  /\ thrown = "none"
  /\ artifacts = <<>>
  /\ prompt = <<>>
  /\ suspended = <<>>
  /\ response = Null
  /\ rawBody = "json"
  /\ npc = "codec"
  /\ reasoning \in TextsUpTo(MaxText)
  /\ sigInput \in Signatures
  /\ envelope = <<>>
  /\ tamperedAt = 0
  /\ decodeResult = Null
  /\ parseResult = <<>>
  /\ cpc = "input"

NextCodec ==
  \/ Encode
  \/ Tamper
  \/ Decode
  \/ Parse

SpecCodec == InitCodec /\ [][NextCodec]_vars

\* ------------------------------------------------ observations on a turn

IsResult(m) == m.type = "result"
IsStreamEventOf(m, t) == m.type = "stream_event" /\ m.event.type = t
IsToolUseStart(m) ==
  /\ IsStreamEventOf(m, "content_block_start")
  /\ m.event.content_block.type = "tool_use"
IsStopSignal(m) == IsStreamEventOf(m, "message_stop")

\* a tool_use block start is among the first n messages consumed
ToolSeenWithin(n) == \E j \in 1..n : IsToolUseStart(consumed[j])
\* a terminal result is among the first n messages consumed
ResultWithin(n) == \E j \in 1..n : IsResult(consumed[j])

StopCount == Count(emitted, IsMessageStop)

\* ------------------------------------------------------------------ claims

\* C1: whatever q delivers (a stream that ends without a result, one cut short
\* by an AbortError, one with several stop signals and results), at most one
\* message_stop is ever yielded, and a generator that has run to its end has
\* yielded exactly one.
C1_ExactlyOneMessageStop ==
  /\ StopCount <= 1
  /\ gpc = "done" => StopCount = 1

\* C1 witness: a finished turn in which q delivered two results.
C1_Witness ==
  /\ gpc = "done"
  /\ Count(consumed, IsResult) >= 2
  /\ StopCount = 1

\* C2 as stated: message_stop is the last event yielded, whatever q delivers
\* after it.
C2_NothingAfterMessageStop ==
  \A i \in 1..Len(emitted) : IsMessageStop(emitted[i]) => i = Len(emitted)

\* the early termination of C3 for the stop signal consumed as message number i
EarlyTerminationAt(i) ==
  /\ i = Len(consumed)
  /\ gpc \in {"y_early_stop", "closing_q", "done", "returned"}
  /\ emitted # <<>>
  /\ Last(emitted) = MessageStopEvent("tool_use", usage)
  /\ StopCount = 1
  /\ gpc \in {"closing_q", "done"} => aborted

ScenarioMessages ==
  << StreamEvent([type |-> "content_block_start",
                  content_block |-> [type |-> "tool_use", id |-> "t1",
                                     name |-> MCP_PREFIX \o <<"search">>]]),
     StreamEvent([type |-> "content_block_delta",
                  delta |-> [type |-> "input_json_delta", partial_json |-> <<"{}">>]]),
     StreamEvent([type |-> "message_stop"]) >>

ScenarioEvents ==
  << [type |-> "tool_use_start", id |-> "t1", name |-> <<"search">>],
     [type |-> "tool_use_delta", arguments |-> <<"{}">>],
     MessageStopEvent("tool_use", InitialUsage) >>

\* C3 as stated: whenever the stop signal arrives after a tool_use block start
\* in a request that declared tools, message_stop{tool_use} is yielded for it,
\* the bridge is cancelled and nothing more is consumed or yielded.
C3_Original ==
  /\ \A i \in 1..Len(consumed) :
       (IsStopSignal(consumed[i]) /\ hasTools /\ ToolSeenWithin(i - 1))
         => EarlyTerminationAt(i)
  /\ (hasTools /\ consumed = ScenarioMessages) => emitted = ScenarioEvents

\* C3 amended: the same, for a stop signal that no terminal result preceded
\* (no message_stop yielded yet); the cancellation is issued when the consumer
\* resumes the generator after the message_stop.
C3_EarlyTermination ==
  /\ \A i \in 1..Len(consumed) :
       (IsStopSignal(consumed[i]) /\ hasTools /\ ToolSeenWithin(i - 1)
          /\ ~ResultWithin(i - 1))
         => EarlyTerminationAt(i)
  /\ (hasTools /\ consumed = ScenarioMessages) => emitted = ScenarioEvents

\* C3 witness: the scenario ran to its end and the bridge was cancelled.
C3_Witness ==
  /\ hasTools
  /\ consumed = ScenarioMessages
  /\ emitted = ScenarioEvents
  /\ aborted
  /\ gpc = "done"

\* C4: a stop signal that arrives when no tool was seen or no tools were declared
\* yields nothing and cancels nothing; a result that arrives when no message_stop
\* was yielded yet yields message_stop with stopReason tool_use iff a tool was
\* seen this turn, carrying the usage accumulated up to and including the result.
C4_DeferredToResult ==
  [][ /\ ( /\ Len(consumed') = Len(consumed) + 1
           /\ IsStopSignal(Last(consumed'))
           /\ ~(ToolSeenWithin(Len(consumed)) /\ hasTools) )
         => (emitted' = emitted /\ aborted' = aborted /\ gpc' = "await_q")
      /\ ( /\ Len(consumed') = Len(consumed) + 1
           /\ IsResult(Last(consumed'))
           /\ StopCount = 0 )
         => emitted' = Append(emitted,
              MessageStopEvent(IF ToolSeenWithin(Len(consumed)) THEN "tool_use"
                               ELSE "end_turn", usage')) ]_vars

\* C4 witness: a tool was seen in a request without tools, the stop signal was
\* deferred and the result yielded message_stop{tool_use} with the result's usage.
C4_Witness ==
  /\ ~hasTools
  /\ Len(consumed) = 3
  /\ IsToolUseStart(consumed[1])
  /\ IsStopSignal(consumed[2])
  /\ consumed[3] = [type |-> "result", usage |-> <<ResultUsage>>]
  /\ emitted = << [type |-> "tool_use_start", id |-> "t1", name |-> <<"search">>],
                  MessageStopEvent("tool_use", UsageFrom(ResultUsage)) >>
  /\ ~aborted

\* C5: an AbortError raised by q never reaches the consumer and the generator
\* still ends with its single message_stop; any other fault reaches the consumer.
C5_AbortSwallowed ==
  /\ bridgeFault = "AbortError" =>
       /\ gpc \in {"y_fallback", "done", "returned"}
       /\ rpc \notin {"catch", "wrote_error", "wrote_error_done"} \/ writeFailed
       /\ gpc = "done" => StopCount = 1
  /\ bridgeFault = "Error" => gpc = "threw"
  /\ gpc = "threw" <=> bridgeFault = "Error"

\* C5 witness: the cancelled bridge raised AbortError and the stream ended with
\* its one message_stop.
C5_Witness ==
  /\ aborted
  /\ bridgeFault = "AbortError"
  /\ gpc = "done"
  /\ StopCount = 1
  /\ rpc = "finished"
  /\ ~writeFailed

KeepAlive == Comment("keep-alive")
Written(entry) == \E i \in 1..Len(out) : out[i] = entry

\* C6 as stated: a keep-alive comment is written only while no [DONE] has been
\* written and no write on the channel has failed.
C6_NoKeepAliveAfterDone ==
  [][ out' = Append(out, KeepAlive) => (~Written(DoneEntry) /\ ~writeFailed) ]_vars

IsDone(entry) == entry = DoneEntry
IsData(entry) == entry.kind = "data"

\* C7 as stated: the synthetic comment is the first thing written, [DONE] is
\* written at most once, no data chunk follows it, and a response that finished
\* without a rejected write has written it exactly once.
C7_DoneTerminates ==
  /\ out # <<>> => out[1] = Comment("stream connected")
  /\ Count(out, IsDone) <= 1
  /\ \A i, j \in 1..Len(out) : (i < j /\ IsDone(out[i])) => ~IsData(out[j])
  /\ (rpc = "finished" /\ ~writeFailed) => Count(out, IsDone) = 1

\* the chunks the events evs give rise to when handled one after the other:
\* each event's chunk, if it has one, in the order of the events
RECURSIVE ChunksOf(_, _, _, _)
ChunksOf(evs, isFirst, toolIndex, accumulated) ==
  IF evs = <<>> THEN <<>>
  ELSE LET event == Head(evs)
           acc == AccumulatedAfter(event, accumulated)
           chunk == streamEventToOpenAIChunk(event, isFirst, toolIndex, acc)
       IN IF chunk = Null
          THEN ChunksOf(Tail(evs), isFirst, toolIndex, acc)
          ELSE <<chunk>> \o
               ChunksOf(Tail(evs), FALSE,
                        IF event.type = "tool_use_start" THEN toolIndex + 1
                        ELSE toolIndex, acc)

IsEventChunk(entry) == entry.kind = "data" /\ "error" \notin DOMAIN entry.json
\* the chunks written for events, in the order they were written
WrittenChunks ==
  LET entries == SelectSeq(out, IsEventChunk)
  IN [i \in 1..Len(entries) |-> entries[i].json]
\* the events the loop body has been entered for and has got past its chunk write
Handled ==
  IF rpc = "got" \/ (rpc = "catch" /\ writeFailed /\ emitted # <<>>)
  THEN SubSeq(emitted, 1, Len(emitted) - 1)
  ELSE emitted

\* C8: the chunks written are, in order, the chunks of the events yielded so far
\* with the events that have no chunk left out, one chunk per event at most; the
\* chunk of an event is on the channel before the next event is requested.
C8_ChunksFollowEvents ==
  /\ rpc \notin {"catch", "wrote_error", "wrote_error_done", "finally", "finished", "failed"}
       => WrittenChunks = ChunksOf(Handled, TRUE, 0, <<>>)
  /\ Len(WrittenChunks) <= Len(emitted)
  /\ \/ WrittenChunks = ChunksOf(emitted, TRUE, 0, <<>>)
     \/ WrittenChunks = ChunksOf(SubSeq(emitted, 1, Len(emitted) - 1), TRUE, 0, <<>>)
  /\ rpc = "next" => WrittenChunks = ChunksOf(emitted, TRUE, 0, <<>>)
  /\ (rpc = "finished" /\ ~writeFailed /\ bridgeFault # "Error")
       => WrittenChunks = ChunksOf(emitted, TRUE, 0, <<>>)

\* C8 witness: a finished response whose second event (tool_use_stop) had no
\* chunk and whose other two events were written in order.
C8_Witness ==
  /\ rpc = "finished"
  /\ ~writeFailed
  /\ Len(emitted) = 3
  /\ emitted[2].type = "tool_use_stop"
  /\ WrittenChunks = << streamEventToOpenAIChunk(emitted[1], TRUE, 0, <<>>),
                        streamEventToOpenAIChunk(emitted[3], FALSE, 1, <<>>) >>

\* ------------------------------------------------ observations on a request

EnableThinking == mapModelName(body.model).enableThinking
\* the turns the filter was given
FilterInput == IF isAnthropicFormat(body) THEN MessagesA(body) ELSE MessagesB(body)

\* the ids of the tool_use blocks of the assistant turns of a message list
ToolUseIdsOf(messages) ==
  UNION { { messages[i].content[j].id :
              j \in { k \in 1..Len(messages[i].content) :
                        messages[i].content[k].type = "tool_use" } } :
          i \in { k \in 1..Len(messages) : messages[k].role = "assistant" } }
\* the ids the tool_result blocks of a message list refer to
ToolResultIdsOf(messages) ==
  UNION { { messages[i].content[j].tool_use_id :
              j \in { k \in 1..Len(messages[i].content) :
                        messages[i].content[k].type = "tool_result" } } :
          i \in 1..Len(messages) }

\* C9 as stated: with reasoning enabled, every assistant turn of the normalized
\* request begins with a thinking or redacted_thinking block, in either dialect.
C9_AssistantTurnsBeginWithThinking ==
  (npc = "normalized" /\ EnableThinking) =>
    \A i \in 1..Len(internalRequest.messages) :
      internalRequest.messages[i].role = "assistant" =>
        internalRequest.messages[i].content[1].type \in {"thinking", "redacted_thinking"}

\* C10 as stated: every tool_result of the normalized request refers to a
\* tool_use block of one of its assistant turns.
C10_Original ==
  npc = "normalized" =>
    ToolResultIdsOf(internalRequest.messages) \subseteq ToolUseIdsOf(internalRequest.messages)

\* C10 amended: if every tool_result the filter was given referred to a tool_use
\* block of an assistant turn it was given, every tool_result of its output
\* refers to a tool_use block of an assistant turn of its output.
C10_NoOrphanedToolResult ==
  (npc = "normalized" /\ ToolResultIdsOf(FilterInput) \subseteq ToolUseIdsOf(FilterInput)) =>
    ToolResultIdsOf(internalRequest.messages) \subseteq ToolUseIdsOf(internalRequest.messages)

\* C10 witness: of two answered tool calls the filter removed the turn without
\* thinking and the answer to it, and kept the other turn and its answer.
C10_Witness ==
  /\ npc = "normalized"
  /\ EnableThinking
  /\ ToolResultIdsOf(FilterInput) = {"t1", "t2"}
  /\ ToolUseIdsOf(FilterInput) = {"t1", "t2"}
  /\ ToolResultIdsOf(internalRequest.messages) = {"t1"}
  /\ ToolUseIdsOf(internalRequest.messages) = {"t1"}

\* the leading-reasoning-block invariant of one assistant turn
LeadsWithThinking(msg) == msg.content[1].type \in {"thinking", "redacted_thinking"}
Violates(msg) == msg.role = "assistant" /\ ~LeadsWithThinking(msg)
\* the ids of the tool_use blocks of the turns of a message list that violate it
ViolatorToolIds(messages) ==
  UNION { { messages[i].content[j].id :
              j \in { k \in 1..Len(messages[i].content) :
                        messages[i].content[k].type = "tool_use" } } :
          i \in { k \in 1..Len(messages) : Violates(messages[k]) } }
\* a message list without its violating turns, without the tool results that
\* refer to them and without the user turns this empties
WithoutViolators(messages) ==
  LET recorded == ViolatorToolIds(messages)
      Conforms(msg) == ~Violates(msg)
      Answered(b) == ~(b.type = "tool_result" /\ b.tool_use_id \in recorded)
      Cleaned(msg) == IF msg.role = "user"
                      THEN [msg EXCEPT !.content = SelectSeq(msg.content, Answered)]
                      ELSE msg
      NotEmptied(msg) == msg.content # <<>>
      remaining == SelectSeq(messages, Conforms)
  IN SelectSeq([i \in 1..Len(remaining) |-> Cleaned(remaining[i])], NotEmptied)

\* C11 as stated: with reasoning enabled, the normalized request holds the
\* filter's input without the assistant turns that do not begin with a reasoning
\* block, without every tool_result that refers to a tool_use of such a turn and
\* without the user turns this leaves empty.
C11_RemovesViolatingTurns ==
  (npc = "normalized" /\ EnableThinking) =>
    internalRequest.messages = WithoutViolators(FilterInput)

\* C12: with reasoning disabled the normalized request holds the filter's input
\* unchanged: the same turns in the same order with the same blocks.
C12_DisabledIsNoOp ==
  (npc = "normalized" /\ ~EnableThinking) =>
    internalRequest.messages = FilterInput

\* C12 witness: reasoning is disabled and the turns hold an assistant turn
\* without a reasoning block whose tool call is answered, all of it returned.
C12_Witness ==
  /\ npc = "normalized"
  /\ ~EnableThinking
  /\ \E i \in 1..Len(FilterInput) :
       /\ FilterInput[i].role = "assistant"
       /\ ~HasThinking(FilterInput[i])
       /\ ToolUseIdsOf(<<FilterInput[i]>>) \cap ToolResultIdsOf(FilterInput) # {}
  /\ internalRequest.messages = FilterInput

\* ------------------------------------------------ observations on the codec

\* the envelope in the text that came back, as the expression of line 110 finds it
FoundEnvelope == ExecFrom(envelope, 1)
MatchedText == SubSeq(envelope, FoundEnvelope.index, FoundEnvelope.last)
IsThinkingBlock(block) == block.type = "thinking"
\* the text of the envelope shows in a block
ShowsEnvelope(block) ==
  /\ block.type = "text"
  /\ \E i \in 1..Len(block.text) : OccursAt(block.text, i, EnvelopeHead)

\* C13 as stated: decoding what encodeThinkingBlock returned for a text and a
\* signature gives back that text and that signature.
C13_RoundTrip ==
  (cpc = "decoded" /\ tamperedAt = 0 /\ sigInput # <<>>) =>
    decodeResult = [thinking |-> reasoning, signature |-> sigInput]

\* C14: what encodeThinkingBlock returns for a text without a signature is an
\* envelope (the expression of line 110 finds it), and neither decoding it as
\* returned, nor decoding the envelope found in it, nor parsing a text that
\* holds it gives a thinking block.
C14_UnsignedNotDecoded ==
  (cpc \in {"decoded", "parsed"} /\ sigInput = <<>>) =>
    /\ FoundEnvelope.ok
    /\ decodeThinkingBlock(MatchedText) = Null
    /\ cpc = "decoded" => decodeResult = Null
    /\ cpc = "parsed" => SelectSeq(parseResult, IsThinkingBlock) = <<>>

\* C14 witness: the text "a" was encoded without a signature and decoded to none.
C14_Witness ==
  /\ cpc = "decoded"
  /\ sigInput = <<>>
  /\ reasoning = <<"a">>
  /\ envelope = EnvelopeHead \o <<"a">> \o EnvelopeTail \o <<"\n", "\n">>
  /\ decodeResult = Null

\* C15: after one token of the content of a signed envelope was replaced,
\* decoding gives none (the envelope as returned, the envelope found in the text,
\* and a text that holds it parsed); and a thinking block that is returned has
\* the checksum its envelope states.
C15_TamperingDetected ==
  /\ (cpc \in {"decoded", "parsed"} /\ tamperedAt # 0) =>
       /\ FoundEnvelope.ok
       /\ decodeThinkingBlock(MatchedText) = Null
       /\ cpc = "decoded" => decodeResult = Null
       /\ cpc = "parsed" => SelectSeq(parseResult, IsThinkingBlock) = <<>>
  /\ cpc = "parsed" =>
       \A i \in 1..Len(parseResult) :
         IsThinkingBlock(parseResult[i]) =>
           calculateCrc32(EscapeBackticks(parseResult[i].thinking)) = FoundEnvelope.crc
  /\ (cpc = "decoded" /\ decodeResult # Null) =>
       calculateCrc32(EscapeBackticks(decodeResult.thinking)) = FoundEnvelope.crc

\* C15 witness: the content "a" of a signed envelope became "b" and the text was
\* parsed without a thinking block, the trailer still stating the checksum of "a".
C15_Witness ==
  /\ cpc = "parsed"
  /\ reasoning = <<"a">>
  /\ tamperedAt = ContentFirst
  /\ FoundEnvelope.ok
  /\ FoundEnvelope.content = <<"b">>
  /\ FoundEnvelope.crc = calculateCrc32(<<"a">>)
  /\ SelectSeq(parseResult, IsThinkingBlock) = <<>>

\* C16 as stated: when the envelope found in a text does not decode, the parse
\* returns no thinking block and no text block shows the envelope.
C16_FailedEnvelopeDropped ==
  (cpc = "parsed" /\ FoundEnvelope.ok /\ decodeThinkingBlock(MatchedText) = Null) =>
    \A i \in 1..Len(parseResult) :
      ~IsThinkingBlock(parseResult[i]) /\ ~ShowsEnvelope(parseResult[i])

\* ------------------------------------ observations on streamed reasoning blocks

\* the reasoning blocks streamed whole in a turn of reasoning blocks, where every
\* event has a chunk: the positions of a thinking_start and of the thinking_stop
\* that ends it, among the events whose chunks are written
StreamedBlocks ==
  { b \in (1..Len(WrittenChunks)) \X (1..Len(WrittenChunks)) :
      /\ b[1] < b[2]
      /\ emitted[b[1]].type = "thinking_start"
      /\ emitted[b[2]].type = "thinking_stop"
      /\ \A k \in (b[1] + 1)..(b[2] - 1) : emitted[k].type = "thinking_delta" }
\* the content of the chunks of block b, concatenated
StreamedText(b) ==
  Flatten([k \in 1..(b[2] - b[1] + 1) |-> WrittenChunks[b[1] + k - 1].delta.content])
\* the reasoning text of the deltas of block b, concatenated
DeltasOf(b) == Flatten([k \in 1..(b[2] - b[1] - 1) |-> emitted[b[1] + k].thinking])

\* the content of every delta chunk of block b has every backtick escaped
DeltasEscaped(b) ==
  \A k \in (b[1] + 1)..(b[2] - 1) :
    WrittenChunks[k].delta.content = EscapeBackticks(emitted[k].thinking)
\* the streamed text of block b parses to the reasoning block that was streamed
DecodesBack(b) ==
  parseThinkingFromText(StreamedText(b))
    = <<ThinkingBlock(DeltasOf(b), emitted[b[2]].signature)>>

\* C17 as stated: for every reasoning block streamed as thinking_start, deltas and
\* thinking_stop, the chunk contents concatenated are what encodeThinkingBlock
\* returns for the concatenated deltas and the signature of the stop event; every
\* delta is written escaped; and the streamed text decodes back to the block.
C17_StreamedEnvelopeCoherent ==
  \A b \in StreamedBlocks :
    /\ StreamedText(b) = encodeThinkingBlock(DeltasOf(b), emitted[b[2]].signature)
    /\ DeltasEscaped(b)
    /\ emitted[b[2]].signature # <<>> => DecodesBack(b)

\* C18: every message of a normalized request has content, in both dialects and
\* whether or not the filter ran: a turn the converter found nothing to put in is
\* not pushed, and a user turn the filter emptied is dropped.
C18_ContentNonEmpty ==
  npc = "normalized" =>
    \A i \in 1..Len(internalRequest.messages) :
      internalRequest.messages[i].content # <<>>

\* C18 witness: the filter removed a turn that held a tool call only, emptied the
\* user turn that answered it and dropped it; the one turn left has content.
C18_Witness ==
  /\ npc = "normalized"
  /\ EnableThinking
  /\ Len(FilterInput) = 3
  /\ FilterInput[1] = InternalMessage("assistant", <<RawToolUse("t2")>>)
  /\ FilterInput[2] = InternalMessage("user", <<ToolResultBlock("t2", Ok)>>)
  /\ internalRequest.messages = <<InternalMessage("user", <<TextBlock(Hi)>>)>>

\* a is b with some of its elements left out
RECURSIVE IsSubseq(_, _)
IsSubseq(a, b) ==
  IF a = <<>> THEN TRUE
  ELSE IF b = <<>> THEN FALSE
  ELSE IF Head(a) = Head(b) THEN IsSubseq(Tail(a), Tail(b))
  ELSE IsSubseq(a, Tail(b))

IsNative(block) == block.type \in {"thinking", "tool_use"}
IsAssistantArray(msg) == msg.role = "assistant" /\ msg.content.kind = "array"
HoldsThinking(msg) ==
  \E j \in 1..Len(msg.content.blocks) : msg.content.blocks[j].type = "thinking"
\* the native thinking and tool_use blocks of assistant messages, in order
NativeBlocksOf(messages) ==
  Flatten([i \in 1..Len(messages) |-> SelectSeq(messages[i].content.blocks, IsNative)])
IsAssistantTurn(msg) == msg.role = "assistant"
\* the blocks of the assistant turns of a normalized request, in order
AssistantBlocksOf(messages) ==
  LET turns == SelectSeq(messages, IsAssistantTurn)
  IN Flatten([i \in 1..Len(turns) |-> turns[i].content])
\* every block of the message is a native thinking or tool_use block
OnlyNative(msg) == \A j \in 1..Len(msg.content.blocks) : IsNative(msg.content.blocks[j])

HoldsMalformedCall ==
  \E i \in 1..Len(body.messages) :
    /\ body.messages[i].role = "assistant"
    /\ \E j \in 1..Len(body.messages[i].tool_calls) :
         body.messages[i].tool_calls[j].function.arguments = <<"{bad">>

\* C20: in dialect B, once the handler is past toInternal for a body with a
\* model and a tool call whose arguments are not JSON, toInternal has thrown:
\* there is no Internal Request, processRequest was not called, and the answer,
\* when given, has status 500.
C20_MalformedArgumentsFail ==
  (~isAnthropicFormat(body) /\ HoldsMalformedCall /\ body.model # <<>>
     /\ npc # "receiving") =>
    /\ npc \in {"threw", "answered"}
    /\ internalRequest = Null
    /\ submitted = <<>>
    /\ status = IF npc = "answered" THEN 500 ELSE 0

\* C20 witness: a dialect B body whose second message holds the malformed call
\* was answered with status 500 and nothing was submitted.
C20_Witness ==
  /\ npc = "answered"
  /\ status = 500
  /\ ~isAnthropicFormat(body)
  /\ Len(body.messages) = 2
  /\ body.messages[1] = Message("user", StringContent(Hi), <<>>, "")
  /\ body.messages[2] = Message("assistant", NullContent, <<ToolCall("t2", <<"{bad">>)>>, "")
  /\ internalRequest = Null
  /\ submitted = <<>>

\* ------------------------------------------------ observations on the answer

\* the body is one the handler rejects: not JSON, without a model, or without a
\* message
MalformedInput == rawBody # "json" \/ body.model = <<>> \/ body.messages = <<>>
MissingField == rawBody = "json" /\ (body.model = <<>> \/ body.messages = <<>>)

\* C21 as stated: once the handler is past its checks with a malformed input the
\* answer has status 400 and a body {error: {message, type, code}}, and neither
\* toInternal nor processRequest was called.
C21_Original ==
  (MalformedInput /\ npc # "receiving") =>
    /\ npc = "rejected"
    /\ status = 400
    /\ DOMAIN answer = {"error"}
    /\ DOMAIN answer.error = {"message", "type", "code"}
    /\ internalRequest = Null
    /\ submitted = <<>>

\* C21 amended: the answer to a malformed input has status 400 and type
\* invalid_request_error, with the error's fields message, type and code when a
\* required field is missing and message and type alone when the text is not
\* JSON; neither toInternal nor processRequest was called; and no other input is
\* rejected.
C21_MalformedInputRejected ==
  /\ (MalformedInput /\ npc # "receiving") =>
       /\ npc = "rejected"
       /\ status = 400
       /\ DOMAIN answer = {"error"}
       /\ answer.error.type = "invalid_request_error"
       /\ DOMAIN answer.error = IF MissingField THEN {"message", "type", "code"}
                                ELSE {"message", "type"}
       /\ MissingField => answer.error.code = "missing_required_parameter"
       /\ internalRequest = Null
       /\ submitted = <<>>
  /\ npc = "rejected" => MalformedInput

\* C21 witness: a body with a message and without a model was answered 400,
\* model is required.
C21_Witness ==
  /\ npc = "rejected"
  /\ rawBody = "json"
  /\ body.model = <<>>
  /\ body.messages = <<Message("user", StringContent(Hi), <<>>, "")>>
  /\ status = 400
  /\ answer = ErrorBody("model is required", "invalid_request_error",
                        "missing_required_parameter")
  /\ internalRequest = Null

\* ---- C22

\* normalization or processRequest threw, or the bridge reported a fault that
\* is not a cancellation
RequestFailed == thrown # "none" \/ bridgeFault = "Error"
\* the handler is through with the request
RequestOver == npc = "answered" \/ rpc = "finished"
\* the answer is {error: {message, type, code, ...}}
HasErrorBody ==
  /\ "error" \in DOMAIN answer
  /\ {"message", "type", "code"} \subseteq DOMAIN answer.error

TableModels ==
  { <<"claude-4.5-opus-high-thinking">>, <<"claude-4.5-opus">>, <<"claude-4-opus">>,
    <<"claude-4-sonnet">>, <<"claude-3.5-sonnet">>, <<"claude-3-opus">>,
    <<"claude-3-sonnet">>, <<"claude-3-haiku">> }
TableReasoning == { <<"claude-4.5-opus-high-thinking">> }
ReasoningEnabledFor(model) ==
  IF model \in TableModels THEN model \in TableReasoning
  ELSE \E i \in 1..Len(model) : model[i] \in {"thinking", "Thinking", "THINKING"}

\* C23: the Internal Request carries maxThinkingTokens = 10000 exactly when
\* reasoning is enabled for the model of the body (by the table for an
\* identifier of the table, by a case-insensitive occurrence of "thinking" in
\* any other, which is passed through unchanged); claude-4.5-opus-high-thinking
\* gives claude-opus-4-5-20251101 with the budget; maxTokens is 4096 when
\* the body gives no max_tokens.
C23_ThinkingBudget ==
  internalRequest # Null =>
    /\ internalRequest.maxThinkingTokens \in {<<>>, <<10000>>}
    /\ (internalRequest.maxThinkingTokens = <<10000>>) <=> ReasoningEnabledFor(body.model)
    /\ body.model = <<"claude-4.5-opus-high-thinking">> =>
         /\ internalRequest.model = <<"claude-opus-4-5-20251101">>
         /\ internalRequest.maxThinkingTokens = <<10000>>
    /\ body.model \notin TableModels => internalRequest.model = body.model
    /\ body.max_tokens = <<>> => internalRequest.maxTokens = 4096

\* a request for a model that is not in the table and is named Thinking, without
\* max_tokens, has been normalized
C23_Witness ==
  /\ internalRequest # Null
  /\ body.model = <<"x-", "Thinking">>
  /\ body.max_tokens = <<>>
  /\ internalRequest.maxThinkingTokens = <<10000>>
  /\ internalRequest.maxTokens = 4096

\* ---- C24

\* the transcripts written so far
IsJsonl(k) == artifacts[k].file = "jsonl"
\* a block as the caller named it
Bare(block) ==
  IF block.type = "tool_use" THEN [block EXCEPT !.name = sdkToApi(@)] ELSE block
BlocksOf(content) == { content[i] : i \in 1..Len(content) }
BareBlocksOf(content) == { Bare(content[i]) : i \in 1..Len(content) }
\* the records can be given to the turns in order, each holding blocks of its
\* turn only and every turn getting one
FollowsTurns(records, turns) ==
  \E f \in [1..Len(records) -> 1..Len(turns)] :
    /\ \A i \in 1..Len(records) :
         /\ records[i].type = turns[f[i]].role
         /\ BareBlocksOf(records[i].content) \subseteq BlocksOf(turns[f[i]].content)
    /\ \A i \in 1..(Len(records) - 1) : f[i] <= f[i + 1]
    /\ \A t \in 1..Len(turns) : \E i \in 1..Len(records) : f[i] = t

\* C24: the records of a transcript form one chain: the first has no parent,
\* every later one has the uuid of the record before it as parent, the uuids
\* differ, the session identifier is one, and the records follow the order of
\* the turns.
C24_LinearChain ==
  \A k \in 1..Len(artifacts) :
    IsJsonl(k) =>
      LET records == artifacts[k].lines
      IN /\ records # <<>>
         /\ records[1].parentUuid = 0
         /\ \A i \in 2..Len(records) : records[i].parentUuid = records[i - 1].uuid
         /\ \A i, j \in 1..Len(records) : i # j => records[i].uuid # records[j].uuid
         /\ \A i \in 1..Len(records) :
              records[i].uuid # 0 /\ records[i].sessionId = records[1].sessionId
         /\ FollowsTurns(records, internalRequest.messages)

\* a transcript of a history of two turns, the first of them split, is written
C24_Witness ==
  \E k \in 1..Len(artifacts) :
    /\ IsJsonl(k)
    /\ Len(internalRequest.messages) = 2
    /\ Len(artifacts[k].lines) = 3
    /\ artifacts[k].lines[2].stop_reason = "tool_use"

\* ---- C25

BareSeq(content) == [i \in 1..Len(content) |-> Bare(content[i])]
\* the two sequences hold the same blocks, each as often
SameBlocks(left, right) ==
  /\ Len(left) = Len(right)
  /\ \A b \in BlocksOf(left) \cup BlocksOf(right) :
       Cardinality({ i \in 1..Len(left) : left[i] = b })
         = Cardinality({ i \in 1..Len(right) : right[i] = b })
\* where the rule splits a turn with a tool_use block: before its first
\* tool_use, or before the reasoning block right in front of it
RuleSplitAt(content) ==
  LET first == CHOOSE i \in 1..Len(content) :
                 /\ content[i].type = "tool_use"
                 /\ \A j \in 1..(i - 1) : content[j].type # "tool_use"
  IN IF first > 1 /\ content[first - 1].type \in {"thinking", "redacted_thinking"}
     THEN first - 1 ELSE first
\* the rule gives the turn two records: a block is left in front of the split
RuleSplits(turn) ==
  /\ turn.role = "assistant"
  /\ \E i \in 1..Len(turn.content) : turn.content[i].type = "tool_use"
  /\ RuleSplitAt(turn.content) > 1
\* the records are those the rule gives the turns, in order
RECURSIVE FollowsRule(_, _)
FollowsRule(records, turns) ==
  IF turns = <<>> THEN records = <<>>
  ELSE LET turn == Head(turns)
       IN IF RuleSplits(turn)
          THEN /\ Len(records) >= 2
               /\ BareSeq(records[1].content)
                    = SubSeq(turn.content, 1, RuleSplitAt(turn.content) - 1)
               /\ BareSeq(records[2].content)
                    = SubSeq(turn.content, RuleSplitAt(turn.content), Len(turn.content))
               /\ FollowsRule(SubSeq(records, 3, Len(records)), Tail(turns))
          ELSE /\ Len(records) >= 1
               /\ SameBlocks(BareSeq(records[1].content), turn.content)
               /\ FollowsRule(Tail(records), Tail(turns))

\* C25: an assistant turn with a tool_use block and a block left in front of
\* the split point (the first tool_use, or the reasoning block right before it)
\* gives two records, the blocks before the split point and the blocks from it
\* on; any other turn gives one record; the records of a turn hold each of its
\* blocks once and no record is empty.
C25_SplitRule ==
  \A k \in 1..Len(artifacts) :
    IsJsonl(k) =>
      /\ FollowsRule(artifacts[k].lines, internalRequest.messages)
      /\ \A i \in 1..Len(artifacts[k].lines) : artifacts[k].lines[i].content # <<>>

\* the transcript of the one turn [thinking, tool_use] is one record, the
\* reasoning block first
C25_Witness ==
  \E k \in 1..Len(artifacts) :
    /\ IsJsonl(k)
    /\ Len(internalRequest.messages) = 1
    /\ internalRequest.messages[1].role = "assistant"
    /\ Len(internalRequest.messages[1].content) = 2
    /\ internalRequest.messages[1].content[1].type = "thinking"
    /\ internalRequest.messages[1].content[2].type = "tool_use"
    /\ Len(artifacts[k].lines) = 1
    /\ artifacts[k].lines[1].content[1].type = "thinking"

\* ---- C26

\* no block that is not a reasoning block stands before a reasoning block
ReasoningFirst(content) ==
  \A i, j \in 1..Len(content) :
    (i < j /\ content[j].type \in {"thinking", "redacted_thinking"})
      => content[i].type \in {"thinking", "redacted_thinking"}

\* C26: in every assistant record of a transcript, the thinking and
\* redacted_thinking blocks stand before all other blocks.
C26_ReasoningFirst ==
  \A k \in 1..Len(artifacts) :
    IsJsonl(k) =>
      \A i \in 1..Len(artifacts[k].lines) :
        artifacts[k].lines[i].type = "assistant"
          => ReasoningFirst(artifacts[k].lines[i].content)

\* ---- C27

\* the names of the tool_use blocks of a sequence of turns or records, in order
ToolNamesIn(content) ==
  LET IsUse(block) == block.type = "tool_use"
      uses == SelectSeq(content, IsUse)
  IN [i \in 1..Len(uses) |-> uses[i].name]
AllToolNames(entries) ==
  Flatten([i \in 1..Len(entries) |-> ToolNamesIn(entries[i].content)])

\* C27: the tool_use blocks of a transcript carry the names the caller gave,
\* in order, each with the bridge prefix in front once, and sdkToApi gives the
\* caller's name back for each.
C27_NamespacingInverse ==
  \A k \in 1..Len(artifacts) :
    IsJsonl(k) =>
      LET written == AllToolNames(artifacts[k].lines)
          given == AllToolNames(internalRequest.messages)
      IN /\ Len(written) = Len(given)
         /\ \A i \in 1..Len(written) :
              /\ written[i] = <<"mcp__api-tools__">> \o given[i]
              /\ sdkToApi(written[i]) = given[i]
              /\ sdkToApi(given[i]) = given[i]

\* a transcript with two tool_use blocks of different names is written
C27_Witness ==
  \E k \in 1..Len(artifacts) :
    /\ IsJsonl(k)
    /\ <<"mcp__api-tools__", "search">> \in BlocksOf(AllToolNames(artifacts[k].lines))
    /\ <<"mcp__api-tools__", "get", "_file">> \in BlocksOf(AllToolNames(artifacts[k].lines))

\* ---- C28

\* C28: a write of the request file or of the transcript that fails is not
\* raised: processRequest goes on to the bridge and the request gets the
\* answer it would have got.
C28_PersistenceNonFatal ==
  (\E k \in 1..Len(artifacts) : ~artifacts[k].written) =>
    /\ npc # "threw"
    /\ (npc = "answered" /\ bridgeFault # "Error") => status = 200

\* ---- C29

\* the stop reasons of an Internal Response ("null" is null)
StopReasons == {"end_turn", "max_tokens", "tool_use", "null"}
\* the finish reason the caller is to get ("null" is none)
FinishReasonFor(reason) ==
  CASE reason = "end_turn" -> "stop"
    [] reason = "max_tokens" -> "length"
    [] reason = "tool_use" -> "tool_calls"
    [] OTHER -> "null"
\* the request was answered with a completion
Completed == npc = "answered" /\ status = 200
\* the chunks written that carry a finish reason
FinalChunks ==
  { i \in 1..Len(out) :
      /\ out[i].kind = "data"
      /\ "finish_reason" \in DOMAIN out[i].json
      /\ out[i].json.finish_reason # "null" }
StopEvents == { i \in 1..Len(emitted) : emitted[i].type = "message_stop" }

\* C29 as stated: the answer's finish reason is stop for end_turn, length for
\* max_tokens, tool_calls for tool_use and none otherwise, and it is the finish
\* reason the final streaming chunk gives for the same stopReason.
C29_Original ==
  Completed =>
    /\ answer.finish_reason = FinishReasonFor(response.stopReason)
    /\ StreamFinishReason(response.stopReason) = answer.finish_reason

\* C29, amended: internalToOpenai maps end_turn to stop, max_tokens to length,
\* tool_use to tool_calls and null to none; the final streaming chunk gives the
\* same finish reason for end_turn, max_tokens and tool_use, and stop for any
\* other stopReason, which streamMessages never yields (its message_stop
\* carries tool_use or end_turn).
C29_FinishReasons ==
  /\ \A reason \in StopReasons : FinishReason(reason) = FinishReasonFor(reason)
  /\ \A reason \in StopReasons \ {"null"} :
       StreamFinishReason(reason) = FinishReasonFor(reason)
  /\ StreamFinishReason("null") = "stop"
  /\ Completed => answer.finish_reason = FinishReasonFor(response.stopReason)
  /\ \A i \in StopEvents : emitted[i].stopReason \in {"tool_use", "end_turn"}
  /\ \A i \in FinalChunks :
       /\ StopEvents # {}
       /\ \A j \in StopEvents :
            out[i].json.finish_reason = FinishReasonFor(emitted[j].stopReason)

\* a non-streaming request whose turn called a tool is answered tool_calls
C29_Witness ==
  /\ Completed
  /\ response.stopReason = "tool_use"
  /\ answer.finish_reason = "tool_calls"

\* ---- C30

\* a cache count that may be absent
CountOf(field) == IF field = <<>> THEN 0 ELSE field[1]
\* the usage the caller is to get for an internal usage
ReportedUsage(u) ==
  LET promptTokens == u.inputTokens + CountOf(u.cacheCreationInputTokens)
                      + CountOf(u.cacheReadInputTokens)
  IN [prompt_tokens |-> promptTokens,
      completion_tokens |-> u.outputTokens,
      total_tokens |-> promptTokens + u.outputTokens]

\* C30: the usage of a non-streaming answer and of the final streaming chunk
\* has prompt_tokens = inputTokens + cacheCreationInputTokens +
\* cacheReadInputTokens (an absent count is 0), completion_tokens =
\* outputTokens and total_tokens their sum.
C30_UsageReported ==
  /\ Completed => answer.usage = ReportedUsage(response.usage)
  /\ \A i \in FinalChunks :
       /\ StopEvents # {}
       /\ \A j \in StopEvents :
            out[i].json.usage = <<ReportedUsage(emitted[j].usage)>>

\* a non-streaming answer reports the cached tokens of a result in its prompt
\* tokens
C30_Witness ==
  /\ Completed
  /\ response.usage.cacheCreationInputTokens = <<1>>
  /\ response.usage.cacheReadInputTokens = <<1>>
  /\ answer.usage.prompt_tokens = 4
  /\ answer.usage.total_tokens = 6

\* ---- C32

\* the discriminants of the content blocks of the messages of the body
BodyBlockTypes ==
  UNION { { body.messages[i].content.blocks[j].type :
              j \in 1..Len(body.messages[i].content.blocks) } :
          i \in { n \in 1..Len(body.messages) : body.messages[n].content.kind = "array" } }
\* the signs of dialect A in the body
DialectASigns ==
  \/ body.system.kind # "undefined"
  \/ Len(body.tools) > 0 /\ body.tools[1].input_schema # <<>>
  \/ BodyBlockTypes \cap {"tool_use", "tool_result"} # {}

\* C32: isAnthropicFormat gives a boolean for every body given to toInternal,
\* true exactly when the body has a system field, or its first tool carries
\* input_schema, or some content block of a message is a tool_use or a
\* tool_result; the body is normalized by the converter of the dialect so found.
C32_DialectDetected ==
  /\ npc \in {"normalized", "threw"} =>
       /\ isAnthropicFormat(body) \in BOOLEAN
       /\ isAnthropicFormat(body) <=> DialectASigns
  /\ npc = "normalized" =>
       internalRequest = IF DialectASigns THEN anthropicToInternal(body)
                         ELSE openaiToInternal(body)

\* a body whose only sign of dialect A is a tool_result block has been
\* normalized
C32_Witness ==
  /\ npc = "normalized"
  /\ body.system.kind = "undefined"
  /\ body.tools = <<>>
  /\ "tool_result" \in BodyBlockTypes
  /\ isAnthropicFormat(body)

\* ---- C33

IsToolStart(m) ==
  /\ m.type = "stream_event"
  /\ m.event.type = "content_block_start"
  /\ m.event.content_block.type = "tool_use"
IsSignatureDelta(m) ==
  /\ m.type = "stream_event"
  /\ m.event.type = "content_block_delta"
  /\ m.event.delta.type = "signature_delta"
\* among the first n messages consumed, a tool block (a reasoning block) was
\* started and no block stop came after its start
ToolOpenAt(n) ==
  \E j \in 1..n : /\ IsToolStart(consumed[j])
                  /\ \A k \in (j + 1)..n : ~IsBlockStop(consumed[k])
ThinkingOpenAt(n) ==
  \E j \in 1..n : /\ IsThinkingStart(consumed[j])
                  /\ \A k \in (j + 1)..n : ~IsBlockStop(consumed[k])
\* message i is a block stop that closes a tool block (a reasoning block)
ClosesTool(i) == IsBlockStop(consumed[i]) /\ ToolOpenAt(i - 1)
ClosesThinking(i) == IsBlockStop(consumed[i]) /\ ThinkingOpenAt(i - 1)
\* the last of the first n messages that closed a reasoning block, or 0
LastClose(n) ==
  IF \E i \in 1..n : ClosesThinking(i)
  THEN CHOOSE i \in 1..n : ClosesThinking(i) /\ \A k \in (i + 1)..n : ~ClosesThinking(k)
  ELSE 0
\* the signature fragments among the first n messages that came after the last
\* close of a reasoning block, concatenated
SignatureSince(n) ==
  Flatten([k \in 1..(n - LastClose(n)) |->
             IF IsSignatureDelta(consumed[LastClose(n) + k])
             THEN consumed[LastClose(n) + k].event.delta.signature ELSE <<>>])
\* the block stops consumed that closed a reasoning block, in order
ThinkingCloses ==
  SelectSeq([i \in 1..Len(consumed) |-> i], LAMBDA i : ClosesThinking(i))
\* the thinking_stop events the block stops consumed call for
ExpectedThinkingStops ==
  [k \in 1..Len(ThinkingCloses) |->
     [type |-> "thinking_stop", signature |-> SignatureSince(ThinkingCloses[k] - 1)]]
\* event k of the stream ends a block started by an event of type startType
\* that no event of its own type ended before
EndsOpenBlock(k, startType) ==
  \E j \in 1..(k - 1) :
    /\ emitted[j].type = startType
    /\ \A m \in (j + 1)..(k - 1) : emitted[m].type # emitted[k].type

\* C33: the stream holds one tool_use_stop for every block stop consumed while
\* a tool block was open and no other, and one thinking_stop for every block
\* stop consumed while a reasoning block was open and no other, carrying the
\* signature fragments consumed since the last reasoning block closed (none
\* when there were none); between two messages the tool, the reasoning flag
\* and the signature are set exactly when the block is still open; and every
\* tool_use_stop and thinking_stop ends a block that a start event opened.
C33_BlockBracketing ==
  /\ Count(emitted, LAMBDA e : e.type = "tool_use_stop")
       = Cardinality({ i \in 1..Len(consumed) : ClosesTool(i) })
  /\ gpc # "y_tool_use_stop" =>
       SelectSeq(emitted, LAMBDA e : e.type = "thinking_stop") = ExpectedThinkingStops
  /\ gpc = "await_q" =>
       /\ (currentToolId # "") <=> ToolOpenAt(Len(consumed))
       /\ inThinkingBlock <=> ThinkingOpenAt(Len(consumed))
       /\ thinkingSignature = SignatureSince(Len(consumed))
  /\ \A k \in 1..Len(emitted) :
       /\ emitted[k].type = "tool_use_stop" => EndsOpenBlock(k, "tool_use_start")
       /\ emitted[k].type = "thinking_stop" => EndsOpenBlock(k, "thinking_start")

\* a signed reasoning block and then an unsigned one were closed
C33_Witness ==
  \E i, j \in 1..Len(emitted) :
    /\ i < j
    /\ emitted[i].type = "thinking_stop" /\ emitted[i].signature # <<>>
    /\ emitted[j].type = "thinking_stop" /\ emitted[j].signature = <<>>
    /\ gpc = "await_q"

\* ---- C34

\* the usage object a message carries, if it is a usage notification with one
NotifiedUsage(m) ==
  IF m.type = "result" THEN m.usage
  ELSE IF m.type = "stream_event" /\ m.event.type \in {"message_start", "message_delta"}
  THEN m.event.usage
  ELSE <<>>
\* the value message m supplies for field f of the notified usage, if any
Supplied(m, f) ==
  IF NotifiedUsage(m) = <<>> THEN <<>>
  ELSE IF f \in {"cache_creation_input_tokens", "cache_read_input_tokens"}
  THEN NotifiedUsage(m)[1][f]
  ELSE IF f = "input_tokens" /\ m.type = "stream_event" /\ m.event.type = "message_delta"
  THEN NotifiedUsage(m)[1].input_tokens
  ELSE <<NotifiedUsage(m)[1][f]>>
\* the value of field f in the most recent message consumed that supplied it,
\* 0 when none did
LastSupplied(f) ==
  LET suppliers == { i \in 1..Len(consumed) : Supplied(consumed[i], f) # <<>> }
  IN IF suppliers = {} THEN 0
     ELSE Supplied(consumed[CHOOSE i \in suppliers : \A k \in suppliers : k <= i], f)[1]
\* a message_stop was just yielded
AtMessageStop == gpc \in {"y_early_stop", "y_result_stop", "y_fallback"}

\* C34 as stated: each field of the usage of a message_stop is the value of the
\* most recent notification consumed that supplied that field, 0 or absent
\* when none did.
C34_LastWriterWins ==
  AtMessageStop =>
    /\ Last(emitted).type = "message_stop"
    /\ Last(emitted).usage.inputTokens = LastSupplied("input_tokens")
    /\ Last(emitted).usage.outputTokens = LastSupplied("output_tokens")
    /\ OrZero(Last(emitted).usage.cacheCreationInputTokens)
         = LastSupplied("cache_creation_input_tokens")
    /\ OrZero(Last(emitted).usage.cacheReadInputTokens)
         = LastSupplied("cache_read_input_tokens")

\* ---- C35

\* the request is answered without streaming: the loop over q was entered
NonStreaming == response # Null
\* the tool_use blocks of the assistant messages q delivered
BridgeToolUses ==
  UNION { { consumed[i].content[j] :
              j \in { n \in 1..Len(consumed[i].content) :
                        consumed[i].content[n].type = "tool_use" } } :
          i \in { n \in 1..Len(consumed) : consumed[n].type = "assistant" } }
\* processRequest returned an Internal Response
Returned == npc \in {"returned", "answered"} /\ thrown = "none"
ToolsDeclared == internalRequest.tools # <<>>

\* C35: in a request that is not streamed and declared tools, once q delivered
\* an assistant message with a tool_use block the bridge operation is
\* cancelled, and the Internal Response returned has stopReason tool_use and
\* holds every such block under its name without the bridge prefix; an
\* AbortError raised by q is swallowed and a response is returned, any other
\* fault is raised to the handler.
C35_NonStreamingToolUse ==
  NonStreaming =>
    /\ (ToolsDeclared /\ BridgeToolUses # {}) =>
         /\ aborted
         /\ Returned =>
              /\ response.stopReason = "tool_use"
              /\ \A b \in BridgeToolUses :
                   \E k \in 1..Len(response.content) :
                     /\ response.content[k].type = "tool_use"
                     /\ response.content[k].id = b.id
                     /\ MCP_PREFIX \o response.content[k].name = b.name
                     /\ response.content[k].input = b.input
    /\ bridgeFault = "AbortError" => Returned
    /\ bridgeFault \in BridgeFaults \ {"AbortError"} => ~Returned /\ thrown = bridgeFault

\* the bridge was cancelled for a tool_use block, raised AbortError, and the
\* response was returned
C35_Witness ==
  /\ NonStreaming
  /\ ToolsDeclared
  /\ aborted
  /\ bridgeFault = "AbortError"
  /\ npc = "returned"
  /\ response.stopReason = "tool_use"
  /\ \E k \in 1..Len(response.content) :
       /\ response.content[k].type = "tool_use"
       /\ response.content[k].name = <<"search">>

\* ---- C36

\* a tool_use_start is among the events yielded before event k
ToolStartedBefore(k) == \E j \in 1..(k - 1) : emitted[j].type = "tool_use_start"

\* C36: every message_stop of the stream has stopReason tool_use when a
\* tool_use_start was yielded before it and end_turn when none was, at the
\* message-stop signal, at the result and at the end of the stream alike.
C36_StopReasonFollowsToolStart ==
  \A k \in 1..Len(emitted) :
    emitted[k].type = "message_stop" =>
      emitted[k].stopReason = IF ToolStartedBefore(k) THEN "tool_use" ELSE "end_turn"

\* the stream ended without a stop signal or a result after a tool block was
\* started, and the fallback message_stop was yielded
C36_Witness ==
  /\ gpc = "y_fallback"
  /\ Last(emitted).type = "message_stop"
  /\ Last(emitted).stopReason = "tool_use"
  /\ ToolStartedBefore(Len(emitted))

\* ---- C37

\* processRequest is past the choice of the prompt
PromptChosen ==
  npc \in {"ready", "bridging", "streaming", "returned"}
    \/ (npc = "answered" /\ thrown = "none" /\ status = 200)
\* the request that was processed has an assistant message or a tool_result block
HasAssistantOrToolResult ==
  \E i \in 1..Len(internalRequest.messages) :
    \/ internalRequest.messages[i].role = "assistant"
    \/ \E j \in 1..Len(internalRequest.messages[i].content) :
         internalRequest.messages[i].content[j].type = "tool_result"
UserTurns ==
  { i \in 1..Len(internalRequest.messages) : internalRequest.messages[i].role = "user" }
\* the texts of a block list, each but the last followed by a newline
RECURSIVE TextLines(_)
TextLines(blocks) ==
  IF blocks = <<>> THEN <<>>
  ELSE IF Head(blocks).type # "text" THEN TextLines(Tail(blocks))
  ELSE IF TextLines(Tail(blocks)) = <<>>
            /\ \A k \in 1..Len(Tail(blocks)) : Tail(blocks)[k].type # "text"
  THEN Head(blocks).text
  ELSE Head(blocks).text \o <<"\n">> \o TextLines(Tail(blocks))
\* a transcript was built
TranscriptBuilt == \E k \in 1..Len(artifacts) : artifacts[k].file = "jsonl"

\* C37: a transcript is built exactly for a request with an assistant message
\* or a tool_result block, and its prompt is the resume marker; the prompt of
\* any other request is the text blocks of its last user message joined by
\* newlines; a request with none of the three fails with "No user message
\* found" and the bridge is never queried for it.
C37_PathSelection ==
  /\ TranscriptBuilt => HasAssistantOrToolResult
  /\ PromptChosen =>
       IF HasAssistantOrToolResult
       THEN TranscriptBuilt /\ prompt = <<"__RESUME_NO_USER_MSG__">>
       ELSE /\ UserTurns # {}
            /\ \E i \in UserTurns :
                 /\ \A k \in UserTurns : k <= i
                 /\ prompt = TextLines(internalRequest.messages[i].content)
  /\ (npc \in {"threw", "answered"} /\ submitted # <<>> /\ artifacts # <<>>
        /\ artifacts[1].written /\ ~HasAssistantOrToolResult /\ UserTurns = {}) =>
       /\ thrown = "No user message found"
       /\ prompt = <<>>
       /\ consumed = <<>> /\ response = Null /\ gpc = "idle"

\* the prompt of a request with two user turns is the two texts of the last
C37_Witness ==
  /\ npc = "ready"
  /\ Len(internalRequest.messages) = 2
  /\ ~HasAssistantOrToolResult
  /\ prompt = <<"o", "k", "\n", "h", "i">>

\* ---- C38

\* the chunks written that carry a tool call, in order
IsToolCallEntry(entry) ==
  /\ entry.kind = "data"
  /\ "delta" \in DOMAIN entry.json
  /\ "tool_calls" \in DOMAIN entry.json.delta
ToolCallsWritten ==
  LET entries == SelectSeq(out, IsToolCallEntry)
  IN [k \in 1..Len(entries) |-> entries[k].json.delta.tool_calls[1]]
\* a tool call of a tool_use_start chunk: it has the id of the call
StartsCall(call) == "id" \in DOMAIN call
\* the tool calls started by the chunks written before the k-th tool-call chunk
StartedBefore(k) ==
  Cardinality({ j \in 1..(k - 1) : StartsCall(ToolCallsWritten[j]) })

\* C38 as stated: the tool_use_start chunks written carry the indices 0, 1, 2,
\* ... in order, and every tool_use_delta chunk follows a tool_use_start chunk
\* and carries the index of the last one written before it.
C38_ToolCallIndices ==
  \A k \in 1..Len(ToolCallsWritten) :
    IF StartsCall(ToolCallsWritten[k])
    THEN ToolCallsWritten[k].index = StartedBefore(k)
    ELSE /\ StartedBefore(k) > 0
         /\ ToolCallsWritten[k].index = StartedBefore(k) - 1

\* ---- C39

\* the elements of a sequence at the positions of a set, in their order
Restrict(seq, positions) ==
  LET upTo[i \in 0..Len(seq)] ==
        IF i = 0 THEN <<>>
        ELSE IF i \in positions THEN Append(upTo[i - 1], seq[i]) ELSE upTo[i - 1]
  IN upTo[Len(seq)]
\* a sequence is what is left of another after elements were taken out
LeftOf(shorter, longer) ==
  \E positions \in SUBSET (1..Len(longer)) : shorter = Restrict(longer, positions)
\* a turn is a turn of the input as it was, or a user turn of the input
\* without some of its blocks
TurnOf(turn, given) ==
  IF turn.role = "user"
  THEN given.role = "user" /\ LeftOf(turn.content, given.content)
  ELSE turn = given
\* the turns of a message list are, in order, turns of another
OnlyRemoved(result, given) ==
  \E positions \in SUBSET (1..Len(given)) :
    /\ Cardinality(positions) = Len(result)
    /\ \E kept \in {Restrict(given, positions)} :
         \A k \in 1..Len(result) : TurnOf(result[k], kept[k])

\* C39: the turns of the normalized request are, in the order they were given,
\* turns the filter was given: the assistant turns as they were, the user
\* turns with blocks of theirs in their order; and the filter returns the
\* turns of the normalized request as they are when it is given them again.
C39_FilterOnlyRemoves ==
  npc = "normalized" =>
    /\ OnlyRemoved(internalRequest.messages, FilterInput)
    /\ filterMessagesWithoutThinking(internalRequest.messages, EnableThinking)
         = internalRequest.messages

\* the filter removed an assistant turn and one of the two tool results of a
\* user turn, and kept the turn with the other
C39_Witness ==
  /\ npc = "normalized"
  /\ EnableThinking
  /\ Len(internalRequest.messages) < Len(FilterInput)
  /\ \E k \in 1..Len(internalRequest.messages), i \in 1..Len(FilterInput) :
       /\ internalRequest.messages[k].role = "user"
       /\ FilterInput[i].role = "user"
       /\ Len(FilterInput[i].content) = 2
       /\ internalRequest.messages[k].content = <<FilterInput[i].content[1]>>

\* ---------------------------------------------------------------- C31

\* the event streamMessages yields for a fragment of a block
FragmentEvent(delta) ==
  IF delta.type = "text_delta" THEN [type |-> "text_delta", text |-> delta.text]
  ELSE IF delta.type = "input_json_delta"
  THEN [type |-> "tool_use_delta", arguments |-> delta.partial_json]
  ELSE [type |-> "thinking_delta", thinking |-> delta.thinking]

\* the events one call of streamMessages yields for the stream events msgs when
\* no other request is in flight, started with an open tool block toolId ("":
\* none), inside a reasoning block or not, and the signature gathered so far
RECURSIVE EventsAlone(_, _, _, _)
EventsAlone(msgs, toolId, thinking, signature) ==
  IF msgs = <<>> THEN <<>>
  ELSE LET ev == Head(msgs).event
           rest == Tail(msgs)
       IN IF ev.type = "content_block_start"
          THEN IF ev.content_block.type = "tool_use"
               THEN <<[type |-> "tool_use_start", id |-> ev.content_block.id,
                       name |-> sdkToApi(ev.content_block.name)]>>
                    \o EventsAlone(rest, ev.content_block.id, thinking, signature)
               ELSE <<[type |-> "thinking_start"]>>
                    \o EventsAlone(rest, toolId, TRUE, signature)
          ELSE IF ev.type = "content_block_delta"
          THEN IF ev.delta.type = "signature_delta"
               THEN EventsAlone(rest, toolId, thinking, signature \o ev.delta.signature)
               ELSE <<FragmentEvent(ev.delta)>>
                    \o EventsAlone(rest, toolId, thinking, signature)
          ELSE (IF toolId # "" THEN <<[type |-> "tool_use_stop"]>> ELSE <<>>)
               \o (IF thinking
                   THEN <<[type |-> "thinking_stop", signature |-> signature]>>
                   ELSE <<>>)
               \o EventsAlone(rest, "", FALSE, IF thinking THEN <<>> ELSE signature)

IsStreamEvent(m) == m.type = "stream_event"
\* what a request writes on its channel when it is processed alone: the
\* comment of the connection, the chunk of each event of its messages, and the
\* final chunk and [DONE], at the result with the usage of the result or, with
\* no result, when its bridge has ended with the usage the call started with
OutAlone(msgs, ended) ==
  LET reason == StopReasonFor(\E i \in 1..Len(msgs) : IsToolStart(msgs[i]))
      given == SelectSeq(msgs, IsResult)
      stops == IF given # <<>>
               THEN <<MessageStopEvent(reason, UsageFrom(given[1].usage[1]))>>
               ELSE IF ended THEN <<MessageStopEvent(reason, InitialUsage)>>
               ELSE <<>>
      events == EventsAlone(SelectSeq(msgs, IsStreamEvent), "", FALSE, <<>>) \o stops
      chunks == ChunksOf(events, TRUE, 0, <<>>)
  IN <<Comment("stream connected")>>
     \o [i \in 1..Len(chunks) |-> Data(chunks[i])]
     \o (IF stops # <<>> THEN <<DoneEntry>> ELSE <<>>)

IsPrefixOf(a, b) == Len(a) <= Len(b) /\ SubSeq(b, 1, Len(a)) = a
\* the request's bridge has ended
Ended(c) == c.gpc \in {"y_fallback", "done"}
\* the request has written all there is to write for what its bridge delivered
Settled(c) == c.rpc \in {"pull", "finished"}
SameAsAlone(c) ==
  With(OutAlone(c.consumed, Ended(c)),
       LAMBDA alone : /\ IsPrefixOf(c.out, alone)
                      /\ Settled(c) => c.out = alone)

\* C31: of two requests in flight at once, under every interleaving of their
\* steps, each has written on its channel what it writes for its own messages
\* when it is processed alone (content, tool-call indices, reasoning checksum,
\* usage, finish reason and [DONE]): all of it once it awaits its bridge or has
\* finished, and a prefix of it in between.
C31_SameAsAlone ==
  /\ SameAsAlone(Locals)
  /\ SameAsAlone(suspended)

\* C31 witness: both requests are in the middle of their streams: the one that
\* runs has written a tool call of index 0 and awaits its bridge, the other has
\* closed a signed reasoning block, with its checksum, and awaits a write.
C31_Witness ==
  /\ rpc = "pull"
  /\ Len(consumed) = 1
  /\ IsToolStart(consumed[1])
  /\ out[2].json.delta.tool_calls[1].index = 0
  /\ suspended.rpc = "wrote_chunk"
  /\ Len(suspended.consumed) = 4
  /\ suspended.cur.type = "thinking_stop"
  /\ suspended.cur.signature = <<"s">>
  /\ suspended.accumulatedThinking = <<"a">>
  /\ Last(suspended.out) = Data(streamEventToOpenAIChunk(suspended.cur, FALSE, 0, <<"a">>))

====
